---- MODULE Spec2Model ----
(***************************************************************************)
(* Workflow execution engine of api-builder/backend: the store             *)
(* (repository.py), the run loop and resume controller (engine.py) and the *)
(* control plane (main.py, db.py), as a state machine.                     *)
(*                                                                         *)
(* Spec        one worker serving POST /executions and the debug endpoints *)
(*             one run-loop step at a time, inside get_conn transactions.  *)
(* SpecAppend  two workers appending events to one execution.              *)
(* SpecCreate  two workers serving POST /executions with idempotency keys. *)
(***************************************************************************)
EXTENDS Integers, Sequences, FiniteSets, TLC

\* ------------------------------------------------------------------ bounds
MaxExec == 2        \* execution rows ever created in one behaviour
MaxDebug == 2       \* debug requests served in one behaviour
MaxEvents == 27     \* events one execution's log may hold
MaxAppends == 2     \* append_event calls of one concurrent request
MaxRetry == 2       \* largest retryAttempts of a resilience wrapper call
MaxCalls == 2       \* resilience wrapper calls in one behaviour
MaxTicks == 2       \* clock ticks in one behaviour of the resilience wrapper
MaxPageCount == 3   \* pages the paginated server holds
MaxFlaky == 3       \* requests the mock API's flaky endpoint serves
MaxFailUntil == 2   \* largest fail_until of a flaky request
MaxInterval == 3    \* largest snapshot_interval of the snapshot cadence
MaxVersionRequests == 3  \* requests one connection serves in SpecVersions
MaxSnapEvents == 22 \* events the log of the snapshot cadence may hold

\* ------------------------------------------------------- program constants
snapshot_interval == 25
max_call_depth == 8

NULL == "NULL"      \* None / SQL NULL of a text column
NoId == 0           \* None / SQL NULL of a uuid column
NoExc == "no_exception"
EmptyMap == [k \in {} |-> NULL]

Max(S) == CHOOSE x \in S : \A y \in S : y <= x

\* ------------------------------------------------------------------ graphs
\* graph_json documents of the deployed workflow versions.  Nodes use the
\* authored shape (data.nodeType, data.config); edges carry data.condition,
\* sourceHandle and data.breakpoint as authored.
Node(id, type, config) == [id |-> id, node_type |-> type, config |-> config]
Edge(id, source, target, cond, handle, bp) ==
    [id |-> id, source |-> source, target |-> target,
     data_condition |-> cond, sourceHandle |-> handle, data_breakpoint |-> bp]

GraphBranch ==
    [entry_node_id |-> "if1",
     nodes |-> << Node("if1", "if", [expression |-> "vars.approved"]),
                  Node("set1", "define_variable", [name |-> "seen", defaultValue |-> "yes"]),
                  Node("end1", "end", EmptyMap) >>,
     edges |-> << Edge("e_f", "if1", "end1", "false", NULL, FALSE),
                  Edge("e_t", "if1", "set1", NULL, "true", FALSE),
                  Edge("e_s", "set1", "end1", NULL, NULL, TRUE) >>]

GraphNoMatch ==
    [entry_node_id |-> "ifA",
     nodes |-> << Node("ifA", "if", [expression |-> "vars.approved"]),
                  Node("ifB", "if", [expression |-> "vars.approved"]),
                  Node("ifC", "if", [expression |-> "vars.approved"]),
                  Node("boom", "raise_error", [message |-> "boom"]) >>,
     edges |-> << Edge("e_a", "ifA", "ifB", NULL, "out", FALSE),
                  Edge("e_b", "ifA", "ifC", "true", NULL, FALSE),
                  Edge("e_c", "ifC", "boom", "false", NULL, FALSE) >>]

GraphHttpBp ==
    [entry_node_id |-> "start",
     nodes |-> << Node("start", "start_request", [url |-> "http://x"]),
                  Node("end", "end", EmptyMap) >>,
     edges |-> << Edge("bp", "start", "end", NULL, NULL, TRUE) >>]

GraphCycle ==
    [entry_node_id |-> "a",
     nodes |-> << Node("a", "define_variable", [name |-> "x", defaultValue |-> "1"]),
                  Node("b", "if", [expression |-> "vars.approved"]),
                  Node("end", "end", EmptyMap) >>,
     edges |-> << Edge("e_ab", "a", "b", NULL, NULL, TRUE),
                  Edge("e_ba", "b", "a", "true", "true", FALSE),
                  Edge("e_be", "b", "end", "false", "false", FALSE) >>]

GraphParent ==
    [entry_node_id |-> "inv",
     nodes |-> << Node("inv", "invoke_workflow",
                       [targetWorkflowVersionId |-> "branch", inputMode |-> "inherit"]),
                  Node("end", "end", EmptyMap) >>,
     edges |-> << Edge("e1", "inv", "end", NULL, NULL, FALSE) >>]

\* The invoking workflow with a breakpoint ahead of the invoke_workflow node.
GraphParentBp ==
    [entry_node_id |-> "pre",
     nodes |-> << Node("pre", "start", EmptyMap),
                  Node("inv", "invoke_workflow",
                       [targetWorkflowVersionId |-> "branch", inputMode |-> "inherit"]),
                  Node("end", "end", EmptyMap) >>,
     edges |-> << Edge("e0", "pre", "inv", NULL, NULL, TRUE),
                  Edge("e1", "inv", "end", NULL, NULL, FALSE) >>]

\* A workflow that invokes itself.
GraphSelf ==
    [entry_node_id |-> "inv",
     nodes |-> << Node("inv", "invoke_workflow",
                       [targetWorkflowVersionId |-> "selfinv", inputMode |-> "inherit"]),
                  Node("end", "end", EmptyMap) >>,
     edges |-> << Edge("e1", "inv", "end", NULL, NULL, FALSE) >>]

GraphJoin ==
    [entry_node_id |-> "j",
     nodes |-> << Node("j", "join", EmptyMap),
                  Node("fe", "for_each_parallel", [listExpr |-> "vars.items", itemName |-> "item"]),
                  Node("end", "end", EmptyMap) >>,
     edges |-> << Edge("e1", "j", "fe", NULL, NULL, TRUE),
                  Edge("e2", "fe", "end", NULL, NULL, FALSE) >>]

GraphDangling ==
    [entry_node_id |-> "d",
     nodes |-> << Node("d", "if", [expression |-> "vars.approved"]) >>,
     edges |-> << Edge("e_bp", "d", "ghost", "true", NULL, TRUE),
                  Edge("e_go", "d", "ghost", "false", NULL, FALSE) >>]

\* A breakpoint edge whose target is the empty string.
GraphBlank ==
    [entry_node_id |-> "d",
     nodes |-> << Node("d", "if", [expression |-> "vars.approved"]) >>,
     edges |-> << Edge("e_bp", "d", "", "true", NULL, TRUE) >>]

\* A graph without entry_node_id.
GraphNoEntry ==
    [entry_node_id |-> NULL,
     nodes |-> << Node("end", "end", EmptyMap) >>,
     edges |-> << >>]

\* Seven define_variable nodes in a row and an end node: a run that
\* completes with snapshot_interval events.
ChainEdge(i) ==
    IF i < 7 THEN Edge("c" \o ToString(i), "d" \o ToString(i), "d" \o ToString(i + 1), NULL, NULL, FALSE)
    ELSE Edge("c7", "d7", "end", NULL, NULL, FALSE)

GraphChain ==
    [entry_node_id |-> "d1",
     nodes |-> [i \in 1..7 |-> Node("d" \o ToString(i), "define_variable",
                                    [name |-> "x", defaultValue |-> ToString(i)])]
               \o << Node("end", "end", EmptyMap) >>,
     edges |-> [i \in 1..7 |-> ChainEdge(i)]]

\* Two parameters nodes: a name the input supplies, a name it does not, the
\* reserved name, a blank name, and a name declared twice; the run sets the
\* defaulted variable anew and pauses.
Param(name, default) == [name |-> name, defaultValue |-> default]

GraphParams ==
    [entry_node_id |-> "p1",
     nodes |-> << Node("p1", "parameters",
                       [parameters |-> << Param("approved", "dflt"), Param(" limit ", "10"),
                                          Param("input", "x"), Param(" ", "void") >>]),
                  Node("p2", "parameters", [parameters |-> << Param("limit", "20") >>]),
                  Node("set", "define_variable", [name |-> "limit", defaultValue |-> "99"]),
                  Node("end", "end", EmptyMap) >>,
     edges |-> << Edge("e1", "p1", "p2", NULL, NULL, FALSE),
                  Edge("e2", "p2", "set", NULL, NULL, FALSE),
                  Edge("e_bp", "set", "end", NULL, NULL, TRUE) >>]

\* A parent that makes a request and then invokes a child making a request
\* from a node of the same id; one failure opens the node's breaker.
GraphHttpChild ==
    [entry_node_id |-> "start",
     nodes |-> << Node("start", "start_request", [url |-> "http://x", circuitFailureThreshold |-> 1]),
                  Node("end", "end", EmptyMap) >>,
     edges |-> << Edge("e1", "start", "end", NULL, NULL, FALSE) >>]

GraphHttpParent ==
    [entry_node_id |-> "start",
     nodes |-> << Node("start", "start_request", [url |-> "http://x", circuitFailureThreshold |-> 1]),
                  Node("inv", "invoke_workflow",
                       [targetWorkflowVersionId |-> "http_child", inputMode |-> "inherit"]),
                  Node("end", "end", EmptyMap) >>,
     edges |-> << Edge("e1", "start", "inv", NULL, NULL, FALSE),
                  Edge("e2", "inv", "end", NULL, NULL, FALSE) >>]

\* A breakpoint before a node that fails.
GraphBpBoom ==
    [entry_node_id |-> "pre",
     nodes |-> << Node("pre", "start", EmptyMap),
                  Node("boom", "raise_error", [message |-> "boom"]) >>,
     edges |-> << Edge("e_bp", "pre", "boom", NULL, NULL, TRUE) >>]

\* The same graph with every edge's breakpoint flag cleared.
ClearBreakpoints(g) ==
    [g EXCEPT !.edges = [i \in DOMAIN g.edges |-> [g.edges[i] EXCEPT !.data_breakpoint = FALSE]]]

\* Version ids whose twin is the same graph without breakpoints.
Twin == [branch |-> "branch_nobp", cycle |-> "cycle_nobp", joinfe |-> "joinfe_nobp"]

GraphOf(v) ==
    CASE v = "branch" -> GraphBranch
      [] v = "branch_nobp" -> ClearBreakpoints(GraphBranch)
      [] v = "nomatch" -> GraphNoMatch
      [] v = "http_bp" -> GraphHttpBp
      [] v = "cycle" -> GraphCycle
      [] v = "cycle_nobp" -> ClearBreakpoints(GraphCycle)
      [] v = "parent" -> GraphParent
      [] v = "parent_bp" -> GraphParentBp
      [] v = "selfinv" -> GraphSelf
      [] v = "joinfe" -> GraphJoin
      [] v = "joinfe_nobp" -> ClearBreakpoints(GraphJoin)
      [] v = "dangling" -> GraphDangling
      [] v = "blank" -> GraphBlank
      [] v = "noentry" -> GraphNoEntry
      [] v = "chain" -> GraphChain
      [] v = "params" -> GraphParams
      [] v = "bp_boom" -> GraphBpBoom
      [] v = "http_child" -> GraphHttpChild
      [] v = "http_parent" -> GraphHttpParent

\* Contents of api.workflow_versions a behaviour may start with.
Deployments ==
    { {"branch", "branch_nobp"}, {"cycle", "cycle_nobp"}, {"joinfe", "joinfe_nobp"},
      {"parent", "branch"}, {"parent_bp", "branch"}, {"selfinv"}, {"nomatch"}, {"http_bp"}, {"dangling"},
      {"blank"}, {"noentry"}, {"chain"}, {"params"},
      {"http_parent", "http_child"}, {"bp_boom"} }

Inputs == { [approved |-> "true"], [approved |-> "no"] }
Keys == { NULL, "", "k1" }

\* ------------------------------------------------------ graph normalization
\* _node_from_graph keeps id, node_type and config of every node.
NodeIds(g) == { g.nodes[i].id : i \in DOMAIN g.nodes }
NodeById(g, id) == g.nodes[CHOOSE i \in DOMAIN g.nodes : g.nodes[i].id = id]

normalize_edge(edge) ==
    [id |-> edge.id, source |-> edge.source, target |-> edge.target,
     condition |-> IF edge.data_condition \in {"true", "false"} THEN edge.data_condition
                   ELSE IF edge.sourceHandle \in {"true", "false"} THEN edge.sourceHandle
                   ELSE NULL,
     breakpoint |-> edge.data_breakpoint]

\* _index_graph: the outgoing edges of a node, in edge-array order.
outgoing(g, id) ==
    SelectSeq([i \in DOMAIN g.edges |-> normalize_edge(g.edges[i])], LAMBDA e : e.source = id)

\* Values are strings; "True" and "False" stand for the Python booleans, NULL
\* for None.  A boolean is returned as it is, a string is stripped,
\* lower-cased and looked up, None is falsy.
coerce_bool(value) == value \in {"True", "1", "true", "yes", "y"}

NoEdge == [id |-> NULL, source |-> NULL, target |-> NULL, condition |-> NULL, breakpoint |-> FALSE]

FirstMatch(edges, desired) ==
    LET hits == { i \in DOMAIN edges : edges[i].condition = desired }
    IN  IF hits = {} THEN 0 ELSE CHOOSE i \in hits : \A j \in hits : i <= j

\* Edge selection that ignores the conditions.
select_next_edge_first(node, edges, node_output) ==
    IF edges = << >> THEN NoEdge ELSE edges[1]

select_next_edge(node, edges, node_output) ==
    IF edges = << >> THEN NoEdge
    ELSE IF node.node_type = "if"
              /\ FirstMatch(edges, IF coerce_bool(node_output.result) THEN "true" ELSE "false") # 0
         THEN edges[FirstMatch(edges, IF coerce_bool(node_output.result) THEN "true" ELSE "false")]
         ELSE edges[1]

\* ----------------------------------------------------------------- context
\* ExecutionContext in memory.  live holds the places ("vars.joined", or the
\* id of a join node for nodes[id].output.joined) whose value is the very
\* dict object system["parallel"], so a later write to system["parallel"]
\* shows through them.
Get(f, k, default) == IF k \in DOMAIN f THEN f[k] ELSE default

\* A run that starts with the breaker of node "start" open.
fresh_context_breaker_open(execution_id, input_json, call_depth, parent_execution_id, correlation_id) ==
    [vars |-> ("input" :> input_json) @@ input_json,
     nodes |-> EmptyMap,
     system |-> [execution_id |-> execution_id,
                 call_depth |-> call_depth,
                 parent_execution_id |-> parent_execution_id,
                 correlation_id |-> correlation_id,
                 saved_outputs |-> EmptyMap,
                 parallel |-> EmptyMap,
                 circuit_breakers |-> [start |-> [failures |-> 1, open_until_ms |-> 30000]]],
     live |-> {}]

fresh_context(execution_id, input_json, call_depth, parent_execution_id, correlation_id) ==
    [vars |-> ("input" :> input_json) @@ input_json,
     nodes |-> EmptyMap,
     system |-> [execution_id |-> execution_id,
                 call_depth |-> call_depth,
                 parent_execution_id |-> parent_execution_id,
                 correlation_id |-> correlation_id,
                 saved_outputs |-> EmptyMap,
                 parallel |-> EmptyMap],
     live |-> {}]

\* str.strip() on the parameter names of the deployed graphs.
strip(name) == Get((" limit " :> "limit") @@ (" " :> ""), name, name)

\* Every declared default written, whether the variable exists or not.
RECURSIVE parameter_defaults_overwriting(_, _)
parameter_defaults_overwriting(params, variables) ==
    IF params = << >> THEN variables
    ELSE LET name == strip(Head(params).name)
         IN  parameter_defaults_overwriting(
                 Tail(params),
                 IF name = "" THEN variables
                 ELSE (name :> Head(params).defaultValue) @@ variables)

\* engine.py 719-726: the parameters of one node, in order.
RECURSIVE parameter_defaults(_, _)
parameter_defaults(params, variables) ==
    IF params = << >> THEN variables
    ELSE LET name == strip(Head(params).name)
         IN  parameter_defaults(
                 Tail(params),
                 IF name = "" \/ name \in DOMAIN variables THEN variables
                 ELSE (name :> Head(params).defaultValue) @@ variables)

\* engine.py 713-718: every parameters node, in the order of the graph.
RECURSIVE apply_parameter_defaults(_, _)
apply_parameter_defaults(nodes, context) ==
    IF nodes = << >> THEN context
    ELSE apply_parameter_defaults(
             Tail(nodes),
             IF Head(nodes).node_type # "parameters" THEN context
             ELSE [context EXCEPT !.vars =
                      parameter_defaults(Get(Head(nodes).config, "parameters", << >>), @)])

\* context.to_json() as serialised by Jsonb: aliases are written out by value.
to_json(context) ==
    LET parallel == Get(context.system, "parallel", EmptyMap)
    IN  [vars |-> [k \in DOMAIN context.vars |->
                     IF k = "joined" /\ "vars.joined" \in context.live
                     THEN parallel ELSE context.vars[k]],
         nodes |-> [n \in DOMAIN context.nodes |->
                     IF n \in context.live
                     THEN [context.nodes[n] EXCEPT !.output.joined = parallel]
                     ELSE context.nodes[n]],
         system |-> context.system]

\* ExecutionContext.from_json on a stored document (<< >> is SQL NULL): the
\* three maps become independent objects.
from_json(stored) ==
    IF stored = << >>
    THEN [vars |-> EmptyMap, nodes |-> EmptyMap, system |-> EmptyMap, live |-> {}]
    ELSE [vars |-> stored[1].vars, nodes |-> stored[1].nodes,
          system |-> stored[1].system, live |-> {}]

\* ------------------------------------------------------------------- store
\* st is the content of the tables one connection sees:
\*   executions  id -> row,   events  execution id -> rows in insert order,
\*   snapshots   set of rows.
\* COALESCE(MAX(event_index), 0) + 1: the first event would get index 1.
get_next_event_index_from_one(rows) ==
    IF rows = << >> THEN 1 ELSE Max({ rows[i].event_index : i \in DOMAIN rows }) + 1

get_next_event_index(rows) ==
    IF rows = << >> THEN 0 ELSE Max({ rows[i].event_index : i \in DOMAIN rows }) + 1

Payload(target, info) == [target |-> target, info |-> info]
NoPayload == Payload(NULL, NULL)

append_event(st, execution_id, event_type, node_id, edge_id, payload) ==
    [st EXCEPT !.events[execution_id] =
        Append(@, [event_index |-> get_next_event_index(@),
                   event_type |-> event_type,
                   node_id |-> node_id,
                   edge_id |-> edge_id,
                   payload |-> payload])]

create_execution(st, id, workflow_version_id, input_json, parent_execution_id, call_depth, idempotency_key, correlation_id) ==
    [st EXCEPT !.executions = (id :> [id |-> id,
                                      workflow_version_id |-> workflow_version_id,
                                      status |-> "running",
                                      current_node_id |-> NULL,
                                      final_context_json |-> << >>,
                                      input_json |-> input_json,
                                      parent_execution_id |-> parent_execution_id,
                                      trigger_call_depth |-> call_depth,
                                      idempotency_key |-> idempotency_key,
                                      correlation_id |-> correlation_id]) @@ @,
               !.events = (id :> << >>) @@ @]

\* final_context_json = << >> is the Python None of the keyword argument.
update_execution_status(st, execution_id, status, current_node_id, final_context_json) ==
    IF status \in {"completed", "failed", "aborted"}
    THEN [st EXCEPT !.executions[execution_id].status = status,
                    !.executions[execution_id].current_node_id = current_node_id,
                    !.executions[execution_id].final_context_json = final_context_json]
    ELSE IF final_context_json = << >>
    THEN [st EXCEPT !.executions[execution_id].status = status,
                    !.executions[execution_id].current_node_id = current_node_id]
    ELSE [st EXCEPT !.executions[execution_id].status = status,
                    !.executions[execution_id].current_node_id = current_node_id,
                    !.executions[execution_id].final_context_json = final_context_json]

create_snapshot(st, execution_id, event_index, context_json) ==
    IF \E s \in st.snapshots : s.execution_id = execution_id /\ s.event_index = event_index
    THEN st
    ELSE [st EXCEPT !.snapshots = @ \cup {[execution_id |-> execution_id,
                                            event_index |-> event_index,
                                            context_json |-> context_json]}]

\* payload {"event_index": n} of a SNAPSHOT_WRITTEN event.
SnapshotPayload(event_index) == [target |-> NULL, info |-> "snapshot", event_index |-> event_index]

\* engine.py 184: next_idx > 0 and next_idx % settings.snapshot_interval == 0
snapshot_due(next_idx, interval) == next_idx > 0 /\ next_idx % interval = 0

\* A snapshot filed under the index of the event about to be written.
write_snapshot_if_needed_at_next(st, execution_id, context) ==
    LET next_idx == get_next_event_index(st.events[execution_id])
    IN  IF next_idx > 0 /\ next_idx % snapshot_interval = 0
        THEN append_event(create_snapshot(st, execution_id, next_idx, to_json(context)),
                          execution_id, "SNAPSHOT_WRITTEN", NULL, NULL,
                          SnapshotPayload(next_idx))
        ELSE st

write_snapshot_if_needed(st, execution_id, context) ==
    LET next_idx == get_next_event_index(st.events[execution_id])
    IN  IF snapshot_due(next_idx, snapshot_interval)
        THEN append_event(create_snapshot(st, execution_id, next_idx - 1, to_json(context)),
                          execution_id, "SNAPSHOT_WRITTEN", NULL, NULL,
                          SnapshotPayload(next_idx - 1))
        ELSE st

\* The newest snapshot strictly before the event index.
get_latest_snapshot_strictly_before(st, execution_id, event_index) ==
    LET rows == { s \in st.snapshots : s.execution_id = execution_id /\ s.event_index < event_index }
    IN  IF rows = {} THEN << >>
        ELSE << CHOOSE s \in rows : \A t \in rows : t.event_index <= s.event_index >>

\* repository.py 345-361: WHERE event_index <= %s ORDER BY event_index DESC
\* LIMIT 1; << >> when there is no row.
get_latest_snapshot_before(st, execution_id, event_index) ==
    LET rows == { s \in st.snapshots : s.execution_id = execution_id /\ s.event_index <= event_index }
    IN  IF rows = {} THEN << >>
        ELSE << CHOOSE s \in rows : \A t \in rows : t.event_index <= s.event_index >>

\* main.py 153-168: GET /executions/{run_id}/state?event_index=N
get_execution_state(st, run_id, event_index) ==
    LET snap == get_latest_snapshot_before(st, run_id, event_index)
    IN  IF run_id \notin DOMAIN st.executions
        THEN [code |-> 404, event_index |-> event_index, snapshot_event_index |-> 0 - 1,
              context |-> << >>, note |-> "Execution not found"]
        ELSE IF snap = << >>
        THEN [code |-> 200, event_index |-> event_index, snapshot_event_index |-> 0 - 1,
              context |-> << >>, note |-> "No snapshot yet"]
        ELSE [code |-> 200, event_index |-> event_index,
              snapshot_event_index |-> snap[1].event_index,
              context |-> << snap[1].context_json >>, note |-> NULL]

get_execution_by_idempotency_key(st, idempotency_key) ==
    { id \in DOMAIN st.executions : st.executions[id].idempotency_key = idempotency_key }

\* ---------------------------------------------------------- node dispatch
\* _eval_expression on the expressions the deployed graphs use: a missing
\* key of vars evaluates to None.
eval_expression(expression, context) ==
    CASE expression = "vars.approved" -> Get(to_json(context).vars, "approved", NULL)
      [] expression = "False" -> "False"

resolve_value(path, context) ==
    CASE path = "vars.items" -> Get(to_json(context).vars, "items", NULL)
      [] path = "vars.input" -> Get(to_json(context).vars, "input", NULL)

extract_items(payload) == IF payload = NULL THEN << >> ELSE << payload >>

ItemsVar(item_name) == CASE item_name = "item" -> "item_items"

Ok(output, context) == [ok |-> TRUE, output |-> output, context |-> context, error |-> NULL]
Err(error, context) == [ok |-> FALSE, output |-> EmptyMap, context |-> context, error |-> error]

NoCircuit == [failures |-> 0, open_until_ms |-> 0]
TransportError == 0 - 1   \* _http_request raising instead of returning a status

\* The except branch of _with_resilience is taken when fn raises or answers
\* a status of 500 or more.
attempt_failed(status) == status = TransportError \/ status >= 500

attempt_error(status) ==
    IF status = TransportError THEN "Request failed" ELSE "Upstream server error"

\* The breaker test after a failed attempt.
breaker_opens(threshold, failures) == threshold > 0 /\ failures >= threshold

\* The attempt loop of _with_resilience from attempt number `attempt` on;
\* statuses[k] is what the k-th call of fn produces. The clock stands at
\* now_ms while the loop runs.
RECURSIVE attempt_loop(_, _, _, _, _, _, _)
attempt_loop(circuit, statuses, attempt, attempts_total, threshold, open_ms, now_ms) ==
    LET status == statuses[attempt]
        failures == circuit.failures + 1
        failed == [failures |-> failures,
                   open_until_ms |-> IF breaker_opens(threshold, failures)
                                     THEN now_ms + Max({open_ms, 100})
                                     ELSE circuit.open_until_ms]
    IN  IF ~attempt_failed(status)
        THEN [ok |-> TRUE, circuit |-> NoCircuit, attempts |-> attempt,
              status |-> status, error |-> NULL]
        ELSE IF attempt >= attempts_total
        THEN [ok |-> FALSE, circuit |-> failed, attempts |-> attempt,
              status |-> status, error |-> attempt_error(status)]
        ELSE attempt_loop(failed, statuses, attempt + 1, attempts_total,
                          threshold, open_ms, now_ms)

\* _with_resilience on the circuit stored for the node: the result, the
\* circuit it leaves and the number of calls of fn it made.
with_resilience(circuit, retry_attempts, threshold, open_ms, now_ms, statuses) ==
    IF circuit.open_until_ms > now_ms
    THEN [ok |-> FALSE, circuit |-> circuit, attempts |-> 0,
          status |-> TransportError, error |-> "Circuit open"]
    ELSE attempt_loop(circuit, statuses, 1, Max({0, retry_attempts}) + 1,
                      threshold, open_ms, now_ms)

\* last_response written whether the request succeeded or not.
request_with_response_always(node, context, status, http_response) ==
    LET recorded == [context EXCEPT !.system =
                        ("last_response" :> http_response)
                        @@ ("last_response_node_id" :> node.id) @@ @]
    IN  IF status = TransportError \/ status >= 500
        THEN Err("Request failed", recorded)
        ELSE Ok(http_response, recorded)

\* _request_from_node through _with_resilience with the node's retryAttempts
\* (default 0), circuitFailureThreshold (default 5) and circuitOpenMs
\* (default 30000); status is what _http_request returns for every attempt
\* and http_response the response it returns, and the clock of the run
\* stands at 0.
request_with_response(node, context, status, http_response) ==
    LET circuits == Get(context.system, "circuit_breakers", EmptyMap)
        circuit == Get(circuits, node.id, NoCircuit)
        retry_attempts == Get(node.config, "retryAttempts", 0)
        threshold == Get(node.config, "circuitFailureThreshold", 5)
        open_ms == Get(node.config, "circuitOpenMs", 30000)
        r == with_resilience(circuit, retry_attempts, threshold, open_ms, 0,
                             [k \in 1..(Max({0, retry_attempts}) + 1) |-> status])
        put(c) == [context EXCEPT !.system =
                     ("circuit_breakers" :> ((node.id :> c) @@ circuits)) @@ @]
    IN  IF ~r.ok
        THEN Err(r.error, put(r.circuit))
        ELSE Ok(http_response,
                [put(r.circuit) EXCEPT !.system =
                    ("last_response" :> http_response) @@ ("last_response_node_id" :> node.id)
                    @@ put(r.circuit).system])

\* A request whose response is its status code alone.
request_from_node(node, context, status) ==
    request_with_response(node, context, status, [status_code |-> status])

\* _execute_node for every node type but invoke_workflow.
execute_node(node, context, status) ==
    LET config == node.config
        type == node.node_type
    IN  CASE type \in {"auth", "parameters", "start"} -> Ok([node_type |-> type], context)
          [] type = "define_variable" ->
                LET base == Get(context.system, "last_response", NULL)
                    default_value == Get(config, "defaultValue", NULL)
                    value == IF base = NULL /\ default_value # NULL THEN default_value ELSE base
                IN  Ok([name |-> config.name, value |-> value],
                       [context EXCEPT !.vars = (config.name :> value) @@ @,
                                       !.live = IF config.name = "joined"
                                                THEN @ \ {"vars.joined"} ELSE @])
          [] type = "if" ->
                LET expression == Get(config, "expression", "False")
                    result == coerce_bool(eval_expression(expression, context))
                IN  Ok([expression |-> expression,
                        result |-> IF result THEN "True" ELSE "False"], context)
          [] type = "for_each_parallel" ->
                LET items == extract_items(resolve_value(config.listExpr, context))
                    entry == [item_name |-> config.itemName, items |-> items, count |-> Len(items)]
                    parallel == Get(context.system, "parallel", EmptyMap)
                IN  Ok([item_name |-> config.itemName, count |-> Len(items)],
                       [context EXCEPT !.system = ("parallel" :> ((node.id :> entry) @@ parallel)) @@ @,
                                       !.vars = (ItemsVar(config.itemName) :> items) @@ @])
          [] type = "join" ->
                LET strategy == Get(config, "mergeStrategy", "collect_list")
                    parallel == Get(context.system, "parallel", EmptyMap)
                    \* merge_objects is not used by the deployed graphs
                    same_object == strategy \notin {"last_write_wins", "merge_objects"}
                                   /\ "parallel" \in DOMAIN context.system
                IN  Ok([merge_strategy |-> strategy, joined |-> parallel],
                       [context EXCEPT !.vars = ("joined" :> parallel) @@ @,
                                       !.live = IF same_object
                                                THEN @ \cup {"vars.joined", node.id}
                                                ELSE @ \ {"vars.joined", node.id}])
          [] type = "start_request" -> request_from_node(node, context, status)
          [] type = "end" -> Ok([ended |-> TRUE], context)
          [] type = "raise_error" -> Err(config.message, context)
          [] OTHER -> Err("Unsupported node type", context)

\* ------------------------------------------------------------------- state
VARIABLES
    deployed,      \* ids in api.workflow_versions
    clients,       \* which requests the clients send: "plain" or "keyed"
    db,            \* the tables as the serving connection sees them
    committed,     \* the tables as committed
    stack,         \* active run_execution calls, innermost last
    exc,           \* exception in flight out of the call that just ended
    req,           \* the request being served
    response,      \* the last HTTP response
    next_id,       \* number of execution ids handed out, plus one
    debug_count,   \* debug requests served
    dispatched,    \* execution id -> node ids handed to _execute_node
    ap_committed,  \* SpecAppend: committed event rows of the execution
    ap_worker,     \* SpecAppend: the two requests
    cr_unique,     \* SpecCreate: whether the schema makes idempotency_key unique
    cr_committed,  \* SpecCreate: committed execution rows
    cr_worker,     \* SpecCreate: the two requests
    cr_runs,       \* SpecCreate: idempotency key -> runs of the workflow started
    rs,            \* SpecResilience: a node's breaker, its configuration and the last call
    pg,            \* SpecPaginate: a paginate_request node's configuration and its result
    lp,            \* SpecLoop: one run of the run loop with its log left out
    fl,            \* SpecFlaky: the mock API's attempt counters and its requests
    rm,            \* SpecResume: two debug requests for one paused execution
    sn,            \* SpecSnapshot: the length of a log and the snapshots taken of it
    wv             \* SpecVersions: one workflow's version rows and two requests creating versions

engine_vars == << deployed, clients, db, committed, stack, exc, req, response, next_id,
                  debug_count, dispatched >>
append_vars == << ap_committed, ap_worker >>
create_vars == << cr_unique, cr_committed, cr_worker, cr_runs >>
pure_vars == << rs, pg, lp, fl, rm, sn, wv >>
vars == << engine_vars, append_vars, create_vars, pure_vars >>

EmptyStore == [executions |-> [i \in {} |-> NULL], events |-> [i \in {} |-> NULL], snapshots |-> {}]
Idle == [kind |-> "idle", execution_id |-> NoId]
NoResponse == [code |-> 0, execution_id |-> NoId]

Top == stack[Len(stack)]
Pop == SubSeq(stack, 1, Len(stack) - 1)
ReplaceTop(frame) == [stack EXCEPT ![Len(stack)] = frame]

\* A call of run_execution with its keyword arguments; context is
\* context_override (meaningful only when is_resume).
Frame(execution_id, workflow_version, input_json, call_depth, parent_execution_id, correlation_id, start_node_id, context_override, is_resume) ==
    [execution_id |-> execution_id, workflow_version |-> workflow_version,
     input_json |-> input_json, call_depth |-> call_depth,
     parent_execution_id |-> parent_execution_id, correlation_id |-> correlation_id,
     start_node_id |-> start_node_id, context |-> context_override, is_resume |-> is_resume,
     current_node_id |-> NULL, child |-> NoId, pc |-> "enter"]

\* ---------------------------------------------------------------- run loop
\* A run that always starts at the graph's entry node.
initial_node_id_entry(start_node_id, graph) == graph.entry_node_id

\* engine.py 934: current_node_id = start_node_id or graph.get("entry_node_id")
initial_node_id(start_node_id, graph) ==
    IF start_node_id \notin {NULL, ""} THEN start_node_id ELSE graph.entry_node_id

\* engine.py 928-976: depth check, entry check, initial context, RUN_STARTED.
run_enter(st, f) ==
    LET g == GraphOf(f.workflow_version)
        current_node_id == initial_node_id(f.start_node_id, g)
    IN  IF f.call_depth > max_call_depth
        THEN [st |-> st, frame |-> f, outcome |-> "raise",
              error |-> "Maximum workflow call depth exceeded"]
        ELSE IF current_node_id \in {NULL, ""} \/ current_node_id \notin NodeIds(g)
        THEN [st |-> update_execution_status(
                        append_event(st, f.execution_id, "NODE_FAILED", NULL, NULL,
                                     Payload(NULL, "Missing or invalid entry_node_id")),
                        f.execution_id, "failed", NULL, << >>),
              frame |-> f, outcome |-> "return", error |-> NULL]
        ELSE [st |-> IF f.is_resume THEN st
                     ELSE append_event(st, f.execution_id, "RUN_STARTED", NULL, NULL, NoPayload),
              frame |-> [f EXCEPT !.pc = "loop",
                                  !.current_node_id = current_node_id,
                                  !.context = IF f.is_resume THEN f.context
                                              ELSE apply_parameter_defaults(
                                                       g.nodes,
                                                       fresh_context(f.execution_id, f.input_json,
                                                                     f.call_depth,
                                                                     f.parent_execution_id,
                                                                     f.correlation_id))],
              outcome |-> "continue", error |-> NULL]

\* engine.py 979-993: node lookup, status running, NODE_STARTED.
run_loop_top(st, f) ==
    LET g == GraphOf(f.workflow_version)
    IN  IF f.current_node_id \notin NodeIds(g)
        THEN [st |-> st, frame |-> f, outcome |-> "raise", error |-> "KeyError"]
        ELSE [st |-> append_event(
                        update_execution_status(st, f.execution_id, "running",
                                                f.current_node_id, << to_json(f.context) >>),
                        f.execution_id, "NODE_STARTED", f.current_node_id, NULL,
                        Payload(NULL, NodeById(g, f.current_node_id).node_type)),
              frame |-> [f EXCEPT !.pc = "execute"],
              outcome |-> "continue", error |-> NULL]

\* An except branch that records the failure on the row only.
run_node_failed_unlogged(st, f, r) ==
    LET node == NodeById(GraphOf(f.workflow_version), f.current_node_id)
    IN  [st |-> update_execution_status(st, f.execution_id, "failed", node.id,
                                        << to_json(r.context) >>),
         frame |-> f, outcome |-> "raise", error |-> r.error]

\* engine.py 1018-1040: the except branch of the run loop.
run_node_failed(st, f, r) ==
    LET node == NodeById(GraphOf(f.workflow_version), f.current_node_id)
        context == [r.context EXCEPT !.nodes =
                      (node.id :> [status |-> "failed", node_type |-> node.node_type,
                                   output |-> EmptyMap, error |-> r.error]) @@ @]
    IN  [st |-> write_snapshot_if_needed(
                    update_execution_status(
                        append_event(st, f.execution_id, "NODE_FAILED", node.id, NULL,
                                     Payload(NULL, r.error)),
                        f.execution_id, "failed", node.id, << to_json(context) >>),
                    f.execution_id, context),
         frame |-> [f EXCEPT !.context = context],
         outcome |-> "raise", error |-> r.error]

\* engine.py 1005-1017 and 1042-1098: node record, NODE_SUCCEEDED, then end
\* node, edge selection, breakpoint or traversal, each with its snapshot check.
run_node_succeeded(st, f, r) ==
    LET g == GraphOf(f.workflow_version)
        eid == f.execution_id
        node == NodeById(g, f.current_node_id)
        context == [r.context EXCEPT !.nodes =
                      (node.id :> [status |-> "success", node_type |-> node.node_type,
                                   output |-> r.output, error |-> NULL]) @@ @]
        st1 == append_event(st, eid, "NODE_SUCCEEDED", node.id, NULL,
                            Payload(NULL, node.node_type))
        edge == select_next_edge(node, outgoing(g, node.id), to_json(context).nodes[node.id].output)
        done(st2, status, current_node_id) ==
            [st |-> write_snapshot_if_needed(
                        update_execution_status(st2, eid, status, current_node_id,
                                                << to_json(context) >>),
                        eid, context),
             frame |-> [f EXCEPT !.context = context],
             outcome |-> "return", error |-> NULL]
    IN  IF node.node_type = "end"
        THEN done(append_event(st1, eid, "RUN_COMPLETED", NULL, NULL, NoPayload),
                  "completed", node.id)
        ELSE IF edge = NoEdge
        THEN done(append_event(st1, eid, "RUN_COMPLETED", NULL, NULL,
                               Payload(NULL, "No outgoing edge")),
                  "completed", node.id)
        ELSE IF edge.breakpoint
        THEN done(append_event(st1, eid, "BREAKPOINT_PAUSED", NULL, edge.id,
                               Payload(edge.target, edge.source)),
                  "paused", edge.target)
        ELSE [st |-> write_snapshot_if_needed(
                        append_event(st1, eid, "EDGE_TRAVERSED", NULL, edge.id,
                                     Payload(edge.target, edge.source)),
                        eid, context),
              frame |-> [f EXCEPT !.context = context, !.current_node_id = edge.target,
                                  !.pc = "loop"],
              outcome |-> "continue", error |-> NULL]

run_loop_after(st, f, r) ==
    IF r.ok THEN run_node_succeeded(st, f, r) ELSE run_node_failed(st, f, r)

\* The effect of one step of the innermost call on store, stack and exception.
Apply(res) ==
    /\ db' = res.st
    /\ stack' = IF res.outcome = "continue" THEN ReplaceTop(res.frame) ELSE Pop
    /\ exc' = IF res.outcome = "raise" THEN res.error ELSE NoExc

\* ------------------------------------------------------------ engine steps
Active == stack # << >> /\ Len(db.events[Top.execution_id]) < MaxEvents

RunEnter ==
    /\ Active /\ Top.pc = "enter"
    /\ Apply(run_enter(db, Top))
    /\ UNCHANGED << deployed, clients, committed, req, response, next_id, debug_count, dispatched >>

LoopTop ==
    /\ Active /\ Top.pc = "loop"
    /\ Apply(run_loop_top(db, Top))
    /\ UNCHANGED << deployed, clients, committed, req, response, next_id, debug_count, dispatched >>

\* _http_request answers 200 or 500; other node types make no request.
Statuses(node) == IF node.node_type = "start_request" THEN {200, 500} ELSE {0}

ExecuteNode ==
    /\ Active /\ Top.pc = "execute"
    /\ LET node == NodeById(GraphOf(Top.workflow_version), Top.current_node_id)
       IN  /\ node.node_type # "invoke_workflow"
           /\ \E status \in Statuses(node) :
                Apply(run_loop_after(db, Top, execute_node(node, Top.context, status)))
           /\ dispatched' = [dispatched EXCEPT ![Top.execution_id] = Append(@, node.id)]
    /\ UNCHANGED << deployed, clients, committed, req, response, next_id, debug_count >>

\* A child run at its parent's depth.
child_call_depth_same(call_depth) == call_depth

\* engine.py 861 and 872: "call_depth": call_depth + 1
child_call_depth(call_depth) == call_depth + 1

\* A child always labelled with its parent's execution id.
correlation_always_id(correlation_id, execution_id) == ToString(execution_id)

\* engine.py 839: child_correlation_id = correlation_id or str(execution_id);
\* None and the empty string are both false.
correlation_or_id(correlation_id, execution_id) ==
    IF correlation_id \notin {NULL, ""} THEN correlation_id ELSE ToString(execution_id)

\* engine.py 828-875: target resolution, child input, INVOKE_WORKFLOW_STARTED,
\* child row, and the call of run_execution for the child.
InvokeStart ==
    /\ Active /\ Top.pc = "execute"
    /\ LET f == Top
           node == NodeById(GraphOf(f.workflow_version), f.current_node_id)
           target == Get(node.config, "targetWorkflowVersionId", NULL)
           child_input == Get(to_json(f.context).vars, "input", EmptyMap)
           child_correlation_id == correlation_or_id(f.correlation_id, f.execution_id)
       IN  /\ node.node_type = "invoke_workflow"
           /\ dispatched' = (next_id :> << >>) @@
                            [dispatched EXCEPT ![f.execution_id] = Append(@, node.id)]
           /\ IF target \notin deployed
              THEN /\ Apply(run_loop_after(db, f,
                          Err("invoke_workflow target workflow version not found", f.context)))
                   /\ UNCHANGED next_id
              ELSE /\ next_id <= MaxExec
                   /\ db' = create_execution(
                               append_event(db, f.execution_id, "INVOKE_WORKFLOW_STARTED",
                                            node.id, NULL, Payload(target, NULL)),
                               next_id, target, child_input, f.execution_id,
                               child_call_depth(f.call_depth), NULL, child_correlation_id)
                   /\ stack' = Append(ReplaceTop([f EXCEPT !.pc = "invoke_wait", !.child = next_id]),
                                      Frame(next_id, target, child_input, child_call_depth(f.call_depth),
                                            f.execution_id, child_correlation_id, NULL,
                                            from_json(<< >>), FALSE))
                   /\ next_id' = next_id + 1
                   /\ exc' = NoExc
    /\ UNCHANGED << deployed, clients, committed, req, response, debug_count >>

\* A parent that accepts whatever status its child ended with.
child_completed_any(child_status) == TRUE

\* engine.py 878: not (not child_status or child_status["status"] != "completed")
child_completed(child_status) == child_status.status = "completed"

\* engine.py 877-894 once the child's run_execution has returned or raised.
InvokeFinish ==
    /\ Active /\ Top.pc = "invoke_wait"
    /\ LET f == Top
           node == NodeById(GraphOf(f.workflow_version), f.current_node_id)
           child_status == db.executions[f.child]
       IN  IF exc # NoExc
           THEN Apply(run_loop_after(db, f, Err(exc, f.context)))
           ELSE IF ~child_completed(child_status)
           THEN Apply(run_loop_after(db, f, Err("invoke_workflow child execution failed", f.context)))
           ELSE Apply(run_loop_after(
                        append_event(db, f.execution_id, "INVOKE_WORKFLOW_SUCCEEDED", node.id, NULL,
                                     Payload(ToString(f.child), NULL)),
                        f,
                        Ok([child_execution_id |-> ToString(f.child),
                            child_workflow_version_id |-> child_status.workflow_version_id,
                            child_final_context |-> child_status.final_context_json],
                           [f.context EXCEPT !.vars =
                               ("last_child_execution_id" :> ToString(f.child)) @@ @])))
    /\ UNCHANGED << deployed, clients, committed, req, response, next_id, debug_count, dispatched >>

\* ----------------------------------------------------------- control plane
\* ExecutionCreate bodies the clients of a behaviour send.  Plain clients run
\* every deployed version with every input, and an invoking workflow also
\* with a caller-supplied trigger_payload.call_depth; keyed clients retry the
\* deployment's main version with idempotency keys, or ask for an unknown
\* version.
Primary == IF "parent" \in deployed THEN "parent"
           ELSE IF "parent_bp" \in deployed THEN "parent_bp"
           ELSE CHOOSE v \in deployed : v \notin {"branch_nobp", "cycle_nobp", "joinfe_nobp"}

Requests ==
    IF clients = "plain"
    THEN [workflow_version_id : deployed, input_json : Inputs,
          idempotency_key : {NULL}, call_depth : {0}, correlation_id : {NULL}]
         \cup [workflow_version_id : deployed \cap {"parent", "parent_bp", "selfinv"}, input_json : {[approved |-> "no"]},
               idempotency_key : {NULL}, call_depth : {max_call_depth}, correlation_id : {NULL}]
         \cup [workflow_version_id : deployed \cap {"parent", "parent_bp", "selfinv"}, input_json : {[approved |-> "no"]},
               idempotency_key : {NULL}, call_depth : {0}, correlation_id : {"c1", ""}]
    ELSE [workflow_version_id : {Primary, "missing"}, input_json : {[approved |-> "no"]},
          idempotency_key : Keys, call_depth : {0}, correlation_id : {NULL}]

\* main.py 81-117: POST /executions up to the call of run_execution.
PostExecutions(payload) ==
    /\ req = Idle /\ stack = << >>
    /\ LET existing == get_execution_by_idempotency_key(db, payload.idempotency_key)
       IN  IF payload.workflow_version_id \notin deployed
           THEN /\ response' = [code |-> 404, execution_id |-> NoId]
                /\ UNCHANGED << db, stack, req, next_id, dispatched >>
           ELSE IF payload.idempotency_key \notin {NULL, ""} /\ existing # {}
           THEN /\ response' = [code |-> 200, execution_id |-> CHOOSE id \in existing : TRUE]
                /\ UNCHANGED << db, stack, req, next_id, dispatched >>
           ELSE /\ next_id <= MaxExec
                /\ db' = create_execution(db, next_id, payload.workflow_version_id,
                                          payload.input_json, NoId, payload.call_depth,
                                          payload.idempotency_key, payload.correlation_id)
                /\ stack' = << Frame(next_id, payload.workflow_version_id, payload.input_json,
                                     payload.call_depth, NoId, payload.correlation_id, NULL,
                                     from_json(<< >>), FALSE) >>
                /\ req' = [kind |-> "post", execution_id |-> next_id]
                /\ next_id' = next_id + 1
                /\ dispatched' = (next_id :> << >>) @@ dispatched
                /\ UNCHANGED response
    /\ UNCHANGED << deployed, clients, committed, exc, debug_count >>

\* engine.py 1112-1127: the stored cursor and context of a resume or step.
coerce_int(value, default) == IF value \in Int THEN value ELSE default

\* The 409 test of _debug_command never taken.
debug_rejected_never(status, action) == FALSE

\* main.py 191: a resume or step of an execution that is not paused is
\* refused.
debug_rejected(status, action) == status # "paused" /\ action # "abort"

\* The resume-node test passing an empty string.
no_resume_cursor_none(start_node_id) == start_node_id = NULL

\* engine.py 1118-1120: current_node_id is not a non-empty string.
no_resume_cursor(start_node_id) == start_node_id \in {NULL, ""}

\* RUN_RESUMED written for a resume only.
run_resumed_unless_step(st, execution_id, start_node_id, action) ==
    IF action = "step" THEN st
    ELSE append_event(st, execution_id, "RUN_RESUMED", NULL, NULL, Payload(start_node_id, action))

\* engine.py 1122-1127: RUN_RESUMED with payload {mode, resume_node_id}.
run_resumed(st, execution_id, start_node_id, action) ==
    append_event(st, execution_id, "RUN_RESUMED", NULL, NULL, Payload(start_node_id, action))

\* main.py 186-198 with engine.py 1101-1127: a debug request up to the call
\* of run_execution; an abort is served whole.
DebugCommand(run_id, action) ==
    /\ req = Idle /\ stack = << >>
    /\ debug_count < MaxDebug
    /\ debug_count' = debug_count + 1
    /\ IF run_id \notin DOMAIN db.executions
       THEN /\ response' = [code |-> 404, execution_id |-> run_id]
            /\ UNCHANGED << db, committed, stack, req >>
       ELSE LET execution == db.executions[run_id]
                context == from_json(execution.final_context_json)
                start_node_id == execution.current_node_id
                input == Get(context.vars, "input", EmptyMap)
            IN  IF debug_rejected(execution.status, action)
                THEN /\ response' = [code |-> 409, execution_id |-> run_id]
                     /\ UNCHANGED << db, committed, stack, req >>
                ELSE IF action = "abort"
                THEN /\ db' = update_execution_status(
                                 append_event(db, run_id, "RUN_ABORTED", NULL, NULL, NoPayload),
                                 run_id, "aborted", NULL, << >>)
                     /\ committed' = db'
                     /\ response' = [code |-> 200, execution_id |-> run_id]
                     /\ UNCHANGED << stack, req >>
                ELSE IF no_resume_cursor(start_node_id)
                THEN /\ response' = [code |-> 500, execution_id |-> run_id]
                     /\ UNCHANGED << db, committed, stack, req >>
                ELSE /\ db' = run_resumed(db, run_id, start_node_id, action)
                     /\ stack' = << Frame(run_id, execution.workflow_version_id, input,
                                          coerce_int(Get(context.system, "call_depth", NULL), 0),
                                          execution.parent_execution_id, execution.correlation_id,
                                          start_node_id, context, TRUE) >>
                     /\ req' = [kind |-> "debug", execution_id |-> run_id]
                     /\ UNCHANGED << committed, response >>
    /\ UNCHANGED << deployed, clients, exc, next_id, dispatched >>

\* main.py 118-132 (POST: the except branch, then commit) and main.py 204
\* with db.py 13-18 (debug: commit, or rollback when the run raised).
RequestFinish ==
    /\ stack = << >> /\ req.kind # "idle"
    /\ IF req.kind = "post"
       THEN /\ db' = IF exc # NoExc
                     THEN update_execution_status(
                              append_event(db, req.execution_id, "NODE_FAILED", NULL, NULL,
                                           Payload(NULL, exc)),
                              req.execution_id, "failed", NULL, << >>)
                     ELSE db
            /\ committed' = db'
            /\ response' = [code |-> 200, execution_id |-> req.execution_id]
       ELSE /\ db' = IF exc # NoExc THEN committed ELSE db
            /\ committed' = db'
            /\ response' = [code |-> IF exc # NoExc THEN 500 ELSE 200,
                            execution_id |-> req.execution_id]
    /\ req' = Idle
    /\ exc' = NoExc
    /\ UNCHANGED << deployed, clients, stack, next_id, debug_count, dispatched >>

\* ------------------------------------------------------------ specification
EngineInit ==
    /\ deployed \in Deployments
    /\ clients \in {"plain", "keyed"}
    /\ db = EmptyStore
    /\ committed = EmptyStore
    /\ stack = << >>
    /\ exc = NoExc
    /\ req = Idle
    /\ response = NoResponse
    /\ next_id = 1
    /\ debug_count = 0
    /\ dispatched = [i \in {} |-> << >>]

AppendOff == ap_committed = << >> /\ ap_worker = << >>
CreateOff == cr_unique = FALSE /\ cr_committed = {} /\ cr_worker = << >> /\ cr_runs = << >>

ResilienceOff == rs = << >>
PaginateOff == pg = << >>
LoopOff == lp = << >>
FlakyOff == fl = << >>
ResumeOff == rm = << >>
SnapshotOff == sn = << >>
VersionsOff == wv = << >>
PureOff ==
    ResilienceOff /\ PaginateOff /\ LoopOff /\ FlakyOff /\ ResumeOff /\ SnapshotOff /\ VersionsOff

Init == EngineInit /\ AppendOff /\ CreateOff /\ PureOff

Next ==
    \/ (\E payload \in Requests : PostExecutions(payload)) /\ UNCHANGED << append_vars, create_vars, pure_vars >>
    \/ (\E run_id \in 1..next_id, action \in {"resume", "step", "abort"} :
            DebugCommand(run_id, action)) /\ UNCHANGED << append_vars, create_vars, pure_vars >>
    \/ RunEnter /\ UNCHANGED << append_vars, create_vars, pure_vars >>
    \/ LoopTop /\ UNCHANGED << append_vars, create_vars, pure_vars >>
    \/ ExecuteNode /\ UNCHANGED << append_vars, create_vars, pure_vars >>
    \/ InvokeStart /\ UNCHANGED << append_vars, create_vars, pure_vars >>
    \/ InvokeFinish /\ UNCHANGED << append_vars, create_vars, pure_vars >>
    \/ RequestFinish /\ UNCHANGED << append_vars, create_vars, pure_vars >>

Spec == Init /\ [][Next]_vars

\* ------------------------------------------- concurrent append (SpecAppend)
\* Two debug requests on one paused execution, each on its own connection
\* (get_conn), each making up to MaxAppends append_event calls before it
\* commits.  A connection reads the committed rows and its own (READ
\* COMMITTED).  api.execution_events is unique on (execution_id, event_index):
\* an INSERT of a key held by an open transaction waits for it, an INSERT of
\* a committed key fails and the request rolls back.
Workers == {1, 2}
PausedLog == << [event_index |-> 0, by |-> 0], [event_index |-> 1, by |-> 0],
                [event_index |-> 2, by |-> 0], [event_index |-> 3, by |-> 0] >>
EventIndexUnique == TRUE

ApVisible(w) == ap_committed \o ap_worker[w].pending
ApIndexes(rows) == { rows[i].event_index : i \in DOMAIN rows }

ApBegin(w) ==
    /\ ap_worker[w].pc = "idle"
    /\ \E n \in 1..MaxAppends :
         ap_worker' = [ap_worker EXCEPT ![w] = [@ EXCEPT !.pc = "read", !.left = n]]
    /\ UNCHANGED ap_committed

\* repository.py 260: event_index = get_next_event_index(conn, execution_id)
ApRead(w) ==
    /\ ap_worker[w].pc = "read"
    /\ ap_worker' = [ap_worker EXCEPT ![w] =
                       [@ EXCEPT !.pc = "insert",
                                 !.event_index = get_next_event_index(ApVisible(w))]]
    /\ UNCHANGED ap_committed

\* repository.py 262-271: the INSERT.
ApInsert(w) ==
    /\ ap_worker[w].pc = "insert"
    /\ LET idx == ap_worker[w].event_index
           held == \E o \in Workers \ {w} : idx \in ApIndexes(ap_worker[o].pending)
       IN  /\ ~(EventIndexUnique /\ held)
           /\ IF EventIndexUnique /\ idx \in ApIndexes(ap_committed)
              THEN ap_worker' = [ap_worker EXCEPT ![w] =
                                   [@ EXCEPT !.pc = "rolled_back", !.pending = << >>]]
              ELSE ap_worker' = [ap_worker EXCEPT ![w] =
                                   [@ EXCEPT !.pending = Append(@, [event_index |-> idx, by |-> w]),
                                             !.left = @ - 1,
                                             !.pc = IF ap_worker[w].left = 1 THEN "commit" ELSE "read"]]
    /\ UNCHANGED ap_committed

\* db.py 15: conn.commit()
ApCommit(w) ==
    /\ ap_worker[w].pc = "commit"
    /\ ap_committed' = ap_committed \o ap_worker[w].pending
    /\ ap_worker' = [ap_worker EXCEPT ![w] = [@ EXCEPT !.pc = "done", !.pending = << >>]]

EngineOff ==
    /\ deployed = {} /\ clients = "plain" /\ db = EmptyStore /\ committed = EmptyStore
    /\ stack = << >> /\ exc = NoExc /\ req = Idle /\ response = NoResponse
    /\ next_id = 1 /\ debug_count = 0 /\ dispatched = [i \in {} |-> << >>]

InitAppend ==
    /\ EngineOff /\ CreateOff /\ PureOff
    /\ ap_committed \in { SubSeq(PausedLog, 1, n) : n \in 1..Len(PausedLog) }
    /\ ap_worker = [w \in Workers |-> [pc |-> "idle", left |-> 0, event_index |-> 0,
                                        pending |-> << >>]]

NextAppend ==
    \/ (\E w \in Workers : ApBegin(w)) /\ UNCHANGED << engine_vars, create_vars, pure_vars >>
    \/ (\E w \in Workers : ApRead(w)) /\ UNCHANGED << engine_vars, create_vars, pure_vars >>
    \/ (\E w \in Workers : ApInsert(w)) /\ UNCHANGED << engine_vars, create_vars, pure_vars >>
    \/ (\E w \in Workers : ApCommit(w)) /\ UNCHANGED << engine_vars, create_vars, pure_vars >>

SpecAppend == InitAppend /\ [][NextAppend]_vars

\* ------------------------------------------- concurrent create (SpecCreate)
\* Two POST /executions requests, each on its own connection: lookup by key,
\* INSERT, run, commit (main.py 83-132).  api.executions is not in the source
\* tree; cr_unique says whether it declares idempotency_key unique.
CrKeys == {NULL, "k1", "k2"}

CrVisible(w) == cr_committed \cup cr_worker[w].pending

CrBegin(w) ==
    /\ cr_worker[w].pc = "idle"
    /\ \E key \in CrKeys :
         cr_worker' = [cr_worker EXCEPT ![w] = [@ EXCEPT !.pc = "lookup", !.key = key]]
    /\ UNCHANGED << cr_unique, cr_committed, cr_runs >>

\* main.py 88-91
CrLookup(w) ==
    /\ cr_worker[w].pc = "lookup"
    /\ LET key == cr_worker[w].key
           existing == { r \in CrVisible(w) : r.idempotency_key = key }
       IN  cr_worker' = [cr_worker EXCEPT ![w] =
                           [@ EXCEPT !.pc = IF key \notin {NULL, ""} /\ existing # {}
                                            THEN "returned" ELSE "create"]]
    /\ UNCHANGED << cr_unique, cr_committed, cr_runs >>

\* main.py 93-103
CrCreate(w) ==
    /\ cr_worker[w].pc = "create"
    /\ LET key == cr_worker[w].key
           held == \E o \in Workers \ {w} : \E r \in cr_worker[o].pending : r.idempotency_key = key
           taken == \E r \in cr_committed : r.idempotency_key = key
       IN  /\ ~(cr_unique /\ key # NULL /\ held)
           /\ IF cr_unique /\ key # NULL /\ taken
              THEN cr_worker' = [cr_worker EXCEPT ![w] = [@ EXCEPT !.pc = "rolled_back"]]
              ELSE cr_worker' = [cr_worker EXCEPT ![w] =
                                   [@ EXCEPT !.pc = "run",
                                             !.pending = {[id |-> w, idempotency_key |-> key]}]]
    /\ UNCHANGED << cr_unique, cr_committed, cr_runs >>

\* main.py 108-117: run_execution for the new row.
CrRun(w) ==
    /\ cr_worker[w].pc = "run"
    /\ cr_runs' = [cr_runs EXCEPT ![cr_worker[w].key] = @ + 1]
    /\ cr_worker' = [cr_worker EXCEPT ![w] = [@ EXCEPT !.pc = "commit"]]
    /\ UNCHANGED << cr_unique, cr_committed >>

\* db.py 15
CrCommit(w) ==
    /\ cr_worker[w].pc = "commit"
    /\ cr_committed' = cr_committed \cup cr_worker[w].pending
    /\ cr_worker' = [cr_worker EXCEPT ![w] = [@ EXCEPT !.pc = "done", !.pending = {}]]
    /\ UNCHANGED << cr_unique, cr_runs >>

InitCreate ==
    /\ EngineOff /\ AppendOff /\ PureOff
    /\ cr_unique \in BOOLEAN
    /\ cr_committed = {}
    /\ cr_worker = [w \in Workers |-> [pc |-> "idle", key |-> NULL, pending |-> {}]]
    /\ cr_runs = [k \in CrKeys |-> 0]

NextCreate ==
    \/ (\E w \in Workers : CrBegin(w)) /\ UNCHANGED << engine_vars, append_vars, pure_vars >>
    \/ (\E w \in Workers : CrLookup(w)) /\ UNCHANGED << engine_vars, append_vars, pure_vars >>
    \/ (\E w \in Workers : CrCreate(w)) /\ UNCHANGED << engine_vars, append_vars, pure_vars >>
    \/ (\E w \in Workers : CrRun(w)) /\ UNCHANGED << engine_vars, append_vars, pure_vars >>
    \/ (\E w \in Workers : CrCommit(w)) /\ UNCHANGED << engine_vars, append_vars, pure_vars >>

SpecCreate == InitCreate /\ [][NextCreate]_vars

\* ------------------------------------- resilience wrapper (SpecResilience)
\* _with_resilience called again and again for one node id on one execution
\* context, with the wall clock moving between the calls: every
\* retryAttempts, circuitFailureThreshold and circuitOpenMs of a bounded
\* set, and every sequence of attempt results.
RetryValues == (0 - 1)..MaxRetry
ThresholdValues == (0 - 1)..(MaxRetry + 1)
OpenMsValues == {0, 200}
AttemptResults == {200, 500, TransportError}
TickMs == 100
NoCall == [statuses |-> << >>, attempts |-> 0, ok |-> TRUE, error |-> NULL]

InitResilience ==
    /\ EngineOff /\ AppendOff /\ CreateOff /\ VersionsOff /\ PaginateOff /\ LoopOff /\ FlakyOff /\ ResumeOff /\ SnapshotOff
    /\ rs \in [retry_attempts : RetryValues, threshold : ThresholdValues,
               open_ms : OpenMsValues, circuit : {NoCircuit}, now_ms : {0},
               calls : {0}, last : {NoCall}]

\* One call of the wrapper; statuses[k] is the result of the k-th attempt.
RsCall(statuses) ==
    LET r == with_resilience(rs.circuit, rs.retry_attempts, rs.threshold,
                             rs.open_ms, rs.now_ms, statuses)
    IN  /\ rs.calls < MaxCalls
        /\ rs' = [rs EXCEPT !.circuit = r.circuit, !.calls = @ + 1,
                            !.last = [statuses |-> statuses, attempts |-> r.attempts,
                                      ok |-> r.ok, error |-> r.error]]

\* The wall clock moves on.
RsTick ==
    /\ rs.now_ms < MaxTicks * TickMs
    /\ rs' = [rs EXCEPT !.now_ms = @ + TickMs]

NextResilience ==
    \/ (\E statuses \in [1..(Max({0, rs.retry_attempts}) + 1) -> AttemptResults] :
            RsCall(statuses))
       /\ UNCHANGED << engine_vars, append_vars, create_vars, wv, pg, lp, fl, rm, sn >>
    \/ RsTick /\ UNCHANGED << engine_vars, append_vars, create_vars, wv, pg, lp, fl, rm, sn >>

SpecResilience == InitResilience /\ [][NextResilience]_vars

\* ---------------------------------------- paginate_request (SpecPaginate)
\* _execute_paginate_request with strategy page_number against a server
\* whose k-th page is drawn from PageKinds; one action per iteration of the
\* loop. Page k carries the items 10k+1, 10k+2 (a list), the bare value 10k,
\* or nothing at itemsPath.
PageKinds == {"more2", "last2", "yes_scalar", "no_empty", "bare", "down"}

PageOf(kind, k) ==
    CASE kind = "more2" -> [status |-> 200, has_more |-> "True",
                            data |-> [kind |-> "list", value |-> << 10 * k + 1, 10 * k + 2 >>]]
      [] kind = "last2" -> [status |-> 200, has_more |-> "False",
                            data |-> [kind |-> "list", value |-> << 10 * k + 1, 10 * k + 2 >>]]
      [] kind = "yes_scalar" -> [status |-> 200, has_more |-> "yes",
                                 data |-> [kind |-> "scalar", value |-> 10 * k]]
      [] kind = "no_empty" -> [status |-> 200, has_more |-> "no",
                               data |-> [kind |-> "list", value |-> << >>]]
      [] kind = "bare" -> [status |-> 404, has_more |-> NULL,
                           data |-> [kind |-> "none", value |-> << >>]]
      [] kind = "down" -> [status |-> 500, has_more |-> NULL,
                           data |-> [kind |-> "none", value |-> << >>]]

\* The response to the request for page k: past its last page the server
\* answers 404 without a body.
ServerPage(server, k) ==
    IF k \in DOMAIN server THEN PageOf(server[k], k) ELSE PageOf("bare", k)

\* _extract_items of the value at itemsPath: a list as it is, nothing for
\* None, a list of the one value otherwise.
page_items(data) ==
    CASE data.kind = "list" -> data.value
      [] data.kind = "none" -> << >>
      [] OTHER -> << data.value >>

\* The floor of maxPages left out.
max_pages_unfloored(config) == coerce_int(Get(config, "maxPages", 25), 25)

max_pages(config) == Max({1, coerce_int(Get(config, "maxPages", 25), 25)})

next_page(page) == page + 1

PageConfigs == {EmptyMap} \cup { ("maxPages" :> n) : n \in ((0 - 1)..MaxPageCount) \cup {10} }
Servers == UNION { [1..n -> PageKinds] : n \in 0..MaxPageCount }

\* The paginate_request node, and the contexts it is reached with: a fresh
\* one, and one an earlier start_request node left its response in.
PageNode(config) == Node("pages", "paginate_request", config)
PageContexts ==
    LET fresh == fresh_context(1, EmptyMap, 0, NoId, NULL)
    IN  { fresh, request_from_node(Node("first", "start_request", EmptyMap), fresh, 200).context }

InitPaginate ==
    /\ EngineOff /\ AppendOff /\ CreateOff /\ VersionsOff /\ ResilienceOff /\ LoopOff /\ FlakyOff /\ ResumeOff /\ SnapshotOff
    /\ pg \in [config : PageConfigs, server : Servers, state : {"loop"},
               iterations : {0}, page : {1}, requested : {<< >>},
               pages : {<< >>}, all_items : {<< >>}, output : {EmptyMap},
               context : PageContexts]

\* One iteration of `for _ in range(max_pages)`: the request for `page`
\* through _request_from_node (which raises when the answer is a failure),
\* the page and its items kept, and the test of hasMorePath.
PgIterate ==
    LET page_response == ServerPage(pg.server, pg.page)
        r == request_with_response(PageNode(pg.config), pg.context,
                                   page_response.status, page_response)
        fetched == [pg EXCEPT !.context = r.context,
                              !.iterations = @ + 1,
                              !.requested = Append(@, pg.page),
                              !.pages = Append(@, page_response),
                              !.all_items = @ \o page_items(page_response.data)]
    IN  /\ pg.state = "loop"
        /\ pg.iterations < max_pages(pg.config)
        /\ pg' = IF ~r.ok
                 THEN [pg EXCEPT !.state = "failed", !.context = r.context,
                                 !.iterations = @ + 1,
                                 !.requested = Append(@, pg.page)]
                 ELSE IF ~coerce_bool(page_response.has_more)
                 THEN [fetched EXCEPT !.state = "break"]
                 ELSE [fetched EXCEPT !.page = next_page(@)]

\* After the loop: the node's output, and last_response set to the last
\* page (to the output when no page was fetched).
PgResult ==
    LET result == [status_code |-> IF pg.pages # << >> THEN 200 ELSE 204,
                   pages_fetched |-> Len(pg.pages),
                   items |-> pg.all_items,
                   pages |-> pg.pages]
        last == IF pg.pages # << >> THEN pg.pages[Len(pg.pages)] ELSE result
    IN  /\ \/ pg.state = "break"
           \/ pg.state = "loop" /\ pg.iterations >= max_pages(pg.config)
        /\ pg' = [pg EXCEPT !.state = "done",
                            !.output = result,
                            !.context.system = ("last_response" :> last)
                                               @@ ("last_response_node_id" :> "pages") @@ @]

NextPaginate ==
    \/ PgIterate /\ UNCHANGED << engine_vars, append_vars, create_vars, wv, rs, lp, fl, rm, sn >>
    \/ PgResult /\ UNCHANGED << engine_vars, append_vars, create_vars, wv, rs, lp, fl, rm, sn >>

SpecPaginate == InitPaginate /\ [][NextPaginate]_vars

\* ------------------------------------------------------- run loop (SpecLoop)
\* One call of run_execution for a fresh execution of each deployed graph,
\* stepped by the operators of the run loop on a store whose log is dropped
\* after every step: the loop never reads the log back except to number the
\* next event, so its path through the graph is the one of the program. The
\* child run of an invoke_workflow node is one dispatch that returns or
\* raises.
LoopVersions == UNION Deployments

\* The store with the events and snapshots written so far left out.
Forget(st) ==
    [st EXCEPT !.events = [e \in DOMAIN st.events |-> << >>], !.snapshots = {}]

LoopStart(v, input) ==
    [frame |-> Frame(1, v, input, 0, NoId, NULL, NULL, from_json(<< >>), FALSE),
     st |-> create_execution(EmptyStore, 1, v, input, NoId, 0, NULL, NULL),
     outcome |-> "continue"]

InitLoop ==
    /\ EngineOff /\ AppendOff /\ CreateOff /\ VersionsOff /\ ResilienceOff /\ PaginateOff /\ FlakyOff /\ ResumeOff /\ SnapshotOff
    /\ lp \in { LoopStart(v, input) : v \in LoopVersions, input \in Inputs }

\* What a step of the run loop leaves: the frame, the row, the outcome.
LoopApply(res) ==
    lp' = [frame |-> res.frame, st |-> Forget(res.st), outcome |-> res.outcome]

LpRunning == lp # << >> /\ lp.outcome = "continue"

LpEnter ==
    /\ LpRunning /\ lp.frame.pc = "enter"
    /\ LoopApply(run_enter(lp.st, lp.frame))

LpTop ==
    /\ LpRunning /\ lp.frame.pc = "loop"
    /\ LoopApply(run_loop_top(lp.st, lp.frame))

\* The results an invoke_workflow dispatch can have.
InvokeResults(f) ==
    { Err("invoke_workflow child execution failed", f.context),
      Ok([child_execution_id |-> "2", child_workflow_version_id |-> "child",
          child_final_context |-> << >>],
         [f.context EXCEPT !.vars = ("last_child_execution_id" :> "2") @@ @]) }

LpExecute ==
    /\ LpRunning /\ lp.frame.pc = "execute"
    /\ LET f == lp.frame
           node == NodeById(GraphOf(f.workflow_version), f.current_node_id)
       IN  IF node.node_type = "invoke_workflow"
           THEN \E r \in InvokeResults(f) : LoopApply(run_loop_after(lp.st, f, r))
           ELSE \E status \in Statuses(node) :
                   LoopApply(run_loop_after(lp.st, f, execute_node(node, f.context, status)))

NextLoop ==
    \/ LpEnter /\ UNCHANGED << engine_vars, append_vars, create_vars, wv, rs, pg, fl, rm, sn >>
    \/ LpTop /\ UNCHANGED << engine_vars, append_vars, create_vars, wv, rs, pg, fl, rm, sn >>
    \/ LpExecute /\ UNCHANGED << engine_vars, append_vars, create_vars, wv, rs, pg, fl, rm, sn >>

\* The run loop is a sequential program: it takes its next step.
SpecLoop == InitLoop /\ [][NextLoop]_vars /\ WF_vars(NextLoop)

\* -------------------------------------------- mock API flaky (SpecFlaky)
\* POST /resilience/flaky of the mock API served by two threads: the lock,
\* the read of _fail_state, its write, the release, and the answer computed
\* from the local `attempts` after the lock is released.
FlKeys == {"k1", "k2"}
FailUntils == 0..MaxFailUntil
NoHolder == 0
FlIdle == [pc |-> "idle", key |-> NULL, fail_until |-> 0, attempts |-> 0]

InitFlaky ==
    /\ EngineOff /\ AppendOff /\ CreateOff /\ VersionsOff /\ ResilienceOff /\ PaginateOff /\ LoopOff /\ ResumeOff /\ SnapshotOff
    /\ fl = [fail_state |-> [k \in FlKeys |-> 0], holder |-> NoHolder,
             worker |-> [w \in Workers |-> FlIdle], answers |-> << >>]

\* A lock that any thread may take at any time.
lock_free_always(holder) == TRUE

\* threading.Lock: acquired only when no thread holds it.
lock_free(holder) == holder = NoHolder

\* A request arrives at thread w.
FlRequest(w, key, fail_until) ==
    /\ fl.worker[w].pc = "idle"
    /\ Len(fl.answers) + Cardinality({ v \in Workers : fl.worker[v].pc # "idle" }) < MaxFlaky
    /\ fl' = [fl EXCEPT !.worker[w] = [pc |-> "acquire", key |-> key,
                                       fail_until |-> fail_until, attempts |-> 0]]

\* with _fail_state_lock:
FlAcquire(w) ==
    /\ fl.worker[w].pc = "acquire"
    /\ lock_free(fl.holder)
    /\ fl' = [fl EXCEPT !.holder = w, !.worker[w].pc = "read"]

\* attempts = _fail_state.get(key, 0) + 1
FlRead(w) ==
    /\ fl.worker[w].pc = "read"
    /\ fl' = [fl EXCEPT !.worker[w].attempts = fl.fail_state[fl.worker[w].key] + 1,
                        !.worker[w].pc = "write"]

\* _fail_state[key] = attempts, and the end of the with block.
FlWrite(w) ==
    /\ fl.worker[w].pc = "write"
    /\ fl' = [fl EXCEPT !.fail_state[fl.worker[w].key] = fl.worker[w].attempts,
                        !.holder = IF @ = w THEN NoHolder ELSE @,
                        !.worker[w].pc = "answer"]

\* 503 while attempts <= fail_until, else 200 with ok_after_retries.
FlAnswer(w) ==
    /\ fl.worker[w].pc = "answer"
    /\ LET r == fl.worker[w]
           failing == r.attempts <= r.fail_until
       IN  fl' = [fl EXCEPT !.worker[w] = FlIdle,
                            !.answers = Append(@, [key |-> r.key, fail_until |-> r.fail_until,
                                                   attempts |-> r.attempts,
                                                   code |-> IF failing THEN 503 ELSE 200,
                                                   status |-> IF failing THEN NULL
                                                              ELSE "ok_after_retries"])]

NextFlaky ==
    \/ (\E w \in Workers, key \in FlKeys, fail_until \in FailUntils : FlRequest(w, key, fail_until))
       /\ UNCHANGED << engine_vars, append_vars, create_vars, wv, rs, pg, lp, rm, sn >>
    \/ (\E w \in Workers : FlAcquire(w)) /\ UNCHANGED << engine_vars, append_vars, create_vars, wv, rs, pg, lp, rm, sn >>
    \/ (\E w \in Workers : FlRead(w)) /\ UNCHANGED << engine_vars, append_vars, create_vars, wv, rs, pg, lp, rm, sn >>
    \/ (\E w \in Workers : FlWrite(w)) /\ UNCHANGED << engine_vars, append_vars, create_vars, wv, rs, pg, lp, rm, sn >>
    \/ (\E w \in Workers : FlAnswer(w)) /\ UNCHANGED << engine_vars, append_vars, create_vars, wv, rs, pg, lp, rm, sn >>

SpecFlaky == InitFlaky /\ [][NextFlaky]_vars

\* ------------------------------------------- concurrent resume (SpecResume)
\* Two resume/step requests for one paused execution, each on its own
\* connection (READ COMMITTED): the status test of _debug_command, the
\* second read of the row in continue_execution_from_pause, RUN_RESUMED, the
\* run, the commit. The unique index on (execution_id, event_index) makes the
\* first INSERT of a request wait for the open transaction of the other, so a
\* request writes only while the other holds no uncommitted write.
ResumeVersions == {"http_bp", "branch", "joinfe"}

\* One step of run_execution on store st, every request answered 200.
RunStep(st, f) ==
    CASE f.pc = "enter" -> run_enter(st, f)
      [] f.pc = "loop" -> run_loop_top(st, f)
      [] f.pc = "execute" ->
            run_loop_after(st, f,
                execute_node(NodeById(GraphOf(f.workflow_version), f.current_node_id),
                             f.context, 200))

RECURSIVE RunToEnd(_, _)
RunToEnd(st, f) ==
    LET res == RunStep(st, f)
    IN  IF res.outcome = "continue" THEN RunToEnd(res.st, res.frame) ELSE res.st

\* The committed store after POST /executions for version v.
StoreAfterPost(v, input) ==
    RunToEnd(create_execution(EmptyStore, 1, v, input, NoId, 0, NULL, NULL),
             Frame(1, v, input, 0, NoId, NULL, NULL, from_json(<< >>), FALSE))

PausedStores ==
    { st \in { StoreAfterPost(v, input) : v \in ResumeVersions, input \in Inputs } :
         st.executions[1].status = "paused" }

\* engine.py 1129-1140: the arguments of run_execution for a resumed run.
resume_frame(execution) ==
    LET context == from_json(execution.final_context_json)
    IN  Frame(1, execution.workflow_version_id,
              Get(context.vars, "input", EmptyMap),
              coerce_int(Get(context.system, "call_depth", 0), 0),
              execution.parent_execution_id, execution.correlation_id,
              execution.current_node_id, context, TRUE)

\* engine.py 1112-1140 run to its end on store st with one action.
continue_execution_from_pause(st, action) ==
    LET execution == st.executions[1]
    IN  RunToEnd(run_resumed(st, 1, execution.current_node_id, action),
                 resume_frame(execution))

RmIdle == [pc |-> "idle", action |-> NULL, st |-> << >>, frame |-> << >>]

InitResume ==
    /\ EngineOff /\ AppendOff /\ CreateOff /\ VersionsOff
    /\ ResilienceOff /\ PaginateOff /\ LoopOff /\ FlakyOff /\ SnapshotOff
    /\ rm \in [committed : PausedStores, worker : {[w \in Workers |-> RmIdle]}]

\* main.py 189-192: the row as committed, and the 409 test.
RmCheck(w, action) ==
    /\ rm.worker[w].pc = "idle"
    /\ rm' = [rm EXCEPT !.worker[w].action = action,
                        !.worker[w].pc =
                            IF debug_rejected(rm.committed.executions[1].status, action)
                            THEN "refused" ELSE "load"]

\* engine.py 1112-1120: the row read again, the context and the resume node.
RmLoad(w) ==
    /\ rm.worker[w].pc = "load"
    /\ LET execution == rm.committed.executions[1]
           context == from_json(execution.final_context_json)
       IN  rm' = IF no_resume_cursor(execution.current_node_id)
                 THEN [rm EXCEPT !.worker[w].pc = "failed"]
                 ELSE [rm EXCEPT !.worker[w].pc = "resume",
                                 !.worker[w].frame = << resume_frame(execution) >>]

\* No other request holds an uncommitted write.
RmMayWrite(w) == EventIndexUnique => \A o \in Workers \ {w} : rm.worker[o].st = << >>

\* engine.py 1122-1127: RUN_RESUMED.
RmResumed(w) ==
    /\ rm.worker[w].pc = "resume"
    /\ RmMayWrite(w)
    /\ rm' = [rm EXCEPT !.worker[w].pc = "run",
                        !.worker[w].st =
                            << run_resumed(rm.committed, 1,
                                           rm.worker[w].frame[1].start_node_id,
                                           rm.worker[w].action) >>]

\* A step of the resumed run; a run that raises rolls the request back.
RmStep(w) ==
    /\ rm.worker[w].pc = "run"
    /\ LET res == RunStep(rm.worker[w].st[1], rm.worker[w].frame[1])
       IN  rm' = CASE res.outcome = "continue" ->
                        [rm EXCEPT !.worker[w].st = << res.st >>,
                                   !.worker[w].frame = << res.frame >>]
                   [] res.outcome = "return" ->
                        [rm EXCEPT !.worker[w].st = << res.st >>,
                                   !.worker[w].pc = "commit"]
                   [] res.outcome = "raise" ->
                        [rm EXCEPT !.worker[w].st = << >>, !.worker[w].pc = "failed"]

\* db.py 15: conn.commit()
RmCommit(w) ==
    /\ rm.worker[w].pc = "commit"
    /\ rm' = [rm EXCEPT !.committed = rm.worker[w].st[1],
                        !.worker[w].st = << >>,
                        !.worker[w].pc = "done"]

NextResume ==
    \/ (\E w \in Workers, action \in {"resume", "step"} : RmCheck(w, action))
       /\ UNCHANGED << engine_vars, append_vars, create_vars, wv, rs, pg, lp, fl, sn >>
    \/ (\E w \in Workers : RmLoad(w)) /\ UNCHANGED << engine_vars, append_vars, create_vars, wv, rs, pg, lp, fl, sn >>
    \/ (\E w \in Workers : RmResumed(w)) /\ UNCHANGED << engine_vars, append_vars, create_vars, wv, rs, pg, lp, fl, sn >>
    \/ (\E w \in Workers : RmStep(w)) /\ UNCHANGED << engine_vars, append_vars, create_vars, wv, rs, pg, lp, fl, sn >>
    \/ (\E w \in Workers : RmCommit(w)) /\ UNCHANGED << engine_vars, append_vars, create_vars, wv, rs, pg, lp, fl, sn >>

SpecResume == InitResume /\ [][NextResume]_vars

\* ------------------------------------------ snapshot cadence (SpecSnapshot)
\* The events one execution's runs append and the places where the run loop
\* calls _write_snapshot_if_needed, for every snapshot_interval of a bounded
\* set: log holds the event types in index order, snapshots the event_index
\* values of the snapshots written.
Intervals == 1..MaxInterval

InitSnapshot ==
    /\ EngineOff /\ AppendOff /\ CreateOff /\ VersionsOff
    /\ ResilienceOff /\ PaginateOff /\ LoopOff /\ FlakyOff /\ ResumeOff
    /\ sn \in [interval : Intervals, log : {<< >>}, snapshots : {{}}, phase : {"new"}]

\* _write_snapshot_if_needed after the events of a step.
SnCheck(log, snapshots, interval) ==
    IF snapshot_due(Len(log), interval)
    THEN [log |-> Append(log, "SNAPSHOT_WRITTEN"), snapshots |-> snapshots \cup {Len(log) - 1}]
    ELSE [log |-> log, snapshots |-> snapshots]

SnRoom == sn # << >> /\ Len(sn.log) + 6 <= MaxSnapEvents

\* engine.py 965-976: RUN_STARTED, with no snapshot check of its own.
SnRunStarted ==
    /\ SnRoom /\ sn.phase = "new"
    /\ sn' = [sn EXCEPT !.log = Append(@, "RUN_STARTED"), !.phase = "loop"]

\* engine.py 1122-1127: RUN_RESUMED, with no snapshot check of its own.
SnRunResumed ==
    /\ SnRoom /\ sn.phase = "paused"
    /\ sn' = [sn EXCEPT !.log = Append(@, "RUN_RESUMED"), !.phase = "loop"]

\* An iteration that moves on: NODE_STARTED, the two events of an
\* invoke_workflow node, NODE_SUCCEEDED, EDGE_TRAVERSED, then the check.
SnTraverse(invoke) ==
    /\ SnRoom /\ sn.phase = "loop"
    /\ LET events == << "NODE_STARTED" >>
                     \o (IF invoke THEN << "INVOKE_WORKFLOW_STARTED", "INVOKE_WORKFLOW_SUCCEEDED" >>
                         ELSE << >>)
                     \o << "NODE_SUCCEEDED", "EDGE_TRAVERSED" >>
           c == SnCheck(sn.log \o events, sn.snapshots, sn.interval)
       IN  sn' = [sn EXCEPT !.log = c.log, !.snapshots = c.snapshots]

\* The last iteration of a run: the node fails, the run completes, or it
\* pauses at a breakpoint; then the check.
SnLast(kind) ==
    /\ SnRoom /\ sn.phase = "loop"
    /\ LET events == IF kind = "NODE_FAILED" THEN << "NODE_STARTED", "NODE_FAILED" >>
                     ELSE << "NODE_STARTED", "NODE_SUCCEEDED", kind >>
           c == SnCheck(sn.log \o events, sn.snapshots, sn.interval)
       IN  sn' = [sn EXCEPT !.log = c.log, !.snapshots = c.snapshots,
                            !.phase = IF kind = "BREAKPOINT_PAUSED" THEN "paused" ELSE "ended"]

NextSnapshot ==
    \/ SnRunStarted /\ UNCHANGED << engine_vars, append_vars, create_vars, wv, rs, pg, lp, fl, rm >>
    \/ SnRunResumed /\ UNCHANGED << engine_vars, append_vars, create_vars, wv, rs, pg, lp, fl, rm >>
    \/ (\E invoke \in BOOLEAN : SnTraverse(invoke))
       /\ UNCHANGED << engine_vars, append_vars, create_vars, wv, rs, pg, lp, fl, rm >>
    \/ (\E kind \in {"NODE_FAILED", "RUN_COMPLETED", "BREAKPOINT_PAUSED"} : SnLast(kind))
       /\ UNCHANGED << engine_vars, append_vars, create_vars, wv, rs, pg, lp, fl, rm >>

SpecSnapshot == InitSnapshot /\ [][NextSnapshot]_vars


\* ------------------------------------------ workflow versions (SpecVersions)
\* POST /workflows/{id}/versions served on two connections (READ COMMITTED)
\* for one workflow: the SELECT of the next version number, the INSERT, the
\* commit. api.workflow_versions is unique on (workflow_id, version_number):
\* an INSERT of a number another open transaction has inserted waits, and an
\* INSERT of a committed number fails and rolls the request back.
VersionNumberUnique == TRUE
VersionRows == << [version_number |-> 1, by |-> 0], [version_number |-> 2, by |-> 0] >>
WvIdle == [pc |-> "idle", next_version |-> 0, pending |-> << >>, served |-> 0]

InitVersions ==
    /\ EngineOff /\ AppendOff /\ CreateOff
    /\ ResilienceOff /\ PaginateOff /\ LoopOff /\ FlakyOff /\ ResumeOff /\ SnapshotOff
    /\ wv \in [committed : { SubSeq(VersionRows, 1, n) : n \in 0..Len(VersionRows) },
               worker : {[w \in Workers |-> WvIdle]}]

WvNumbers(rows) == { rows[i].version_number : i \in DOMAIN rows }

\* COALESCE(MAX(version_number), 0) without the + 1.
next_version_max(rows) == IF rows = << >> THEN 0 ELSE Max(WvNumbers(rows))

\* repository.py 69-73: SELECT COALESCE(MAX(version_number), 0) + 1
next_version(rows) == IF rows = << >> THEN 1 ELSE Max(WvNumbers(rows)) + 1

\* main.py 50-55: a request arrives and finds the workflow.
WvBegin(w) ==
    /\ wv.worker[w].pc = "idle"
    /\ wv.worker[w].served < MaxVersionRequests
    /\ wv' = [wv EXCEPT !.worker[w].pc = "read", !.worker[w].served = @ + 1]

\* repository.py 69-73 on the rows the connection sees.
WvRead(w) ==
    /\ wv.worker[w].pc = "read"
    /\ wv' = [wv EXCEPT !.worker[w].pc = "insert",
                        !.worker[w].next_version = next_version(wv.committed)]

\* repository.py 75-90: the INSERT.
WvInsert(w) ==
    /\ wv.worker[w].pc = "insert"
    /\ LET n == wv.worker[w].next_version
           held == \E o \in Workers \ {w} : n \in WvNumbers(wv.worker[o].pending)
       IN  /\ ~(VersionNumberUnique /\ held)
           /\ wv' = IF VersionNumberUnique /\ n \in WvNumbers(wv.committed)
                    THEN [wv EXCEPT !.worker[w].pc = "idle"]
                    ELSE [wv EXCEPT !.worker[w].pc = "commit",
                                    !.worker[w].pending = << [version_number |-> n, by |-> w] >>]

\* db.py 15: conn.commit()
WvCommit(w) ==
    /\ wv.worker[w].pc = "commit"
    /\ wv' = [wv EXCEPT !.committed = @ \o wv.worker[w].pending,
                        !.worker[w].pending = << >>,
                        !.worker[w].pc = "idle"]

NextVersions ==
    \/ (\E w \in Workers : WvBegin(w)) /\ UNCHANGED << engine_vars, append_vars, create_vars, rs, pg, lp, fl, rm, sn >>
    \/ (\E w \in Workers : WvRead(w)) /\ UNCHANGED << engine_vars, append_vars, create_vars, rs, pg, lp, fl, rm, sn >>
    \/ (\E w \in Workers : WvInsert(w)) /\ UNCHANGED << engine_vars, append_vars, create_vars, rs, pg, lp, fl, rm, sn >>
    \/ (\E w \in Workers : WvCommit(w)) /\ UNCHANGED << engine_vars, append_vars, create_vars, rs, pg, lp, fl, rm, sn >>

SpecVersions == InitVersions /\ [][NextVersions]_vars

\* ------------------------------------------------------------------ properties
\* C1: the event_index values of every execution's log are 0, 1, ..., k-1 in
\* insert order, in the serving connection's view and in the committed store.
Dense(rows) == \A i \in DOMAIN rows : rows[i].event_index = i - 1

C1_DenseIndices ==
    /\ \A e \in DOMAIN db.events : Dense(db.events[e])
    /\ \A e \in DOMAIN committed.events : Dense(committed.events[e])

C1_Witness ==
    \E e \in DOMAIN committed.events :
        /\ Len(committed.events[e]) >= 8
        /\ \E i \in DOMAIN committed.events[e] : committed.events[e][i].event_type = "RUN_RESUMED"

\* C2: an append_event call never holds, between its read and its insert, an
\* event_index that another event of the execution has received.
C2_AppendSerialized ==
    \A w \in DOMAIN ap_worker :
        ap_worker[w].pc = "insert" =>
            /\ ap_worker[w].event_index \notin ApIndexes(ap_committed)
            /\ \A o \in Workers \ {w} : ap_worker[w].event_index \notin ApIndexes(ap_worker[o].pending)

\* C7: at most one committed execution row carries a given non-null
\* idempotency key, and the workflow is run at most once for it.
C7_OneRowOneRun ==
    \A key \in CrKeys \ {NULL} :
        /\ Cardinality({ r \in cr_committed : r.idempotency_key = key }) <= 1
        /\ (key \in DOMAIN cr_runs => cr_runs[key] <= 1)

\* ------------------------------------------------------------ log helpers
Min(S) == CHOOSE x \in S : \A y \in S : x <= y
NoSnap(rows) == SelectSeq(rows, LAMBDA r : r.event_type # "SNAPSHOT_WRITTEN")
HasEvent(rows, event_type) == \E i \in DOMAIN rows : rows[i].event_type = event_type
HasEdge(rows, edge_id) ==
    \E i \in DOMAIN rows : rows[i].event_type = "EDGE_TRAVERSED" /\ rows[i].edge_id = edge_id
Running(e) == \E s \in DOMAIN stack : stack[s].execution_id = e
NextStarted(rows, i) ==
    LET later == { k \in DOMAIN rows : k > i /\ rows[k].event_type = "NODE_STARTED" }
    IN  IF later = {} THEN Len(rows) + 1 ELSE Min(later)
Outcomes(rows, i) ==
    { k \in (i + 1)..(NextStarted(rows, i) - 1) :
        /\ rows[k].event_type \in {"NODE_SUCCEEDED", "NODE_FAILED"}
        /\ rows[k].node_id = rows[i].node_id }

\* C3: in every log each NODE_STARTED(n) has, before the next NODE_STARTED,
\* exactly one NODE_SUCCEEDED(n) or NODE_FAILED(n) (none yet only while n is
\* the node the run is executing), and nothing but INVOKE_WORKFLOW_* events
\* of the node itself lies between the two.
C3_StartedThenOneOutcome ==
    \A e \in DOMAIN db.events :
        LET rows == db.events[e]
        IN  \A i \in DOMAIN rows :
                rows[i].event_type = "NODE_STARTED" =>
                    /\ Cardinality(Outcomes(rows, i)) <= 1
                    /\ (NextStarted(rows, i) <= Len(rows) \/ ~Running(e))
                           => Cardinality(Outcomes(rows, i)) = 1
                    /\ \A o \in Outcomes(rows, i) : \A k \in (i + 1)..(o - 1) :
                           /\ rows[k].event_type \in {"INVOKE_WORKFLOW_STARTED",
                                                      "INVOKE_WORKFLOW_SUCCEEDED"}
                           /\ rows[k].node_id = rows[i].node_id

C3_Witness ==
    \E e \in DOMAIN committed.events :
        /\ HasEvent(committed.events[e], "INVOKE_WORKFLOW_SUCCEEDED")
        /\ HasEvent(committed.events[e], "RUN_COMPLETED")
        /\ Cardinality({ i \in DOMAIN committed.events[e] :
                           committed.events[e][i].event_type = "NODE_STARTED" }) >= 2

\* C4: in every committed log a RUN_COMPLETED, RUN_ABORTED or NODE_FAILED is
\* followed by nothing but SNAPSHOT_WRITTEN (so each appears at most once).
C4_TerminalEventLast ==
    \A e \in DOMAIN committed.events :
        LET rows == committed.events[e]
        IN  \A i \in DOMAIN rows :
                rows[i].event_type \in {"RUN_COMPLETED", "RUN_ABORTED", "NODE_FAILED"} =>
                    \A k \in (i + 1)..Len(rows) : rows[k].event_type = "SNAPSHOT_WRITTEN"

\* C5: a committed row is never queued, and once it is completed, failed or
\* aborted no request changes its status, current_node_id or
\* final_context_json.
C5_TerminalIsFinal ==
    [][\A e \in DOMAIN committed.executions :
          /\ committed.executions[e].status # "queued"
          /\ committed.executions[e].status \in {"completed", "failed", "aborted"} =>
                /\ committed'.executions[e].status = committed.executions[e].status
                /\ committed'.executions[e].current_node_id = committed.executions[e].current_node_id
                /\ committed'.executions[e].final_context_json
                       = committed.executions[e].final_context_json]_vars

\* C6: a POST /executions whose idempotency_key is the key of an existing
\* execution answers with that execution and changes nothing: no row, no
\* run, no event.
C6_ExistingKeyReturned ==
    [][\A payload \in Requests :
          (/\ PostExecutions(payload)
           /\ payload.idempotency_key # NULL
           /\ get_execution_by_idempotency_key(db, payload.idempotency_key) # {})
          => /\ db' = db
             /\ stack' = << >>
             /\ next_id' = next_id
             /\ response'.code = 200
             /\ response'.execution_id
                    \in get_execution_by_idempotency_key(db, payload.idempotency_key)]_vars

\* ------------------------------------------------------- pause and resume
Successors(g, S) ==
    { g.edges[k].target : k \in { k \in DOMAIN g.edges : g.edges[k].source \in S } }
RECURSIVE Reachable(_, _, _)
Reachable(g, S, n) == IF n = 0 THEN S ELSE Reachable(g, S \cup Successors(g, S), n - 1)
Acyclic(g) ==
    \A id \in NodeIds(g) : id \notin Reachable(g, Successors(g, {id}), Len(g.nodes))

StartedIn(rows, from, to) ==
    { rows[k].node_id : k \in { k \in from..to : rows[k].event_type = "NODE_STARTED" } }
PausedAt(rows) == { i \in DOMAIN rows : rows[i].event_type = "BREAKPOINT_PAUSED" }

SameRun(doc) == [doc EXCEPT !.system = [k \in DOMAIN @ |-> IF k = "execution_id" THEN NoId ELSE @[k]]]

C9_ResumeIdempotent ==
    \A e1, e2 \in DOMAIN committed.executions :
        LET r1 == committed.executions[e1]
            r2 == committed.executions[e2]
        IN  (/\ r1.workflow_version_id \in DOMAIN Twin
             /\ r2.workflow_version_id = Twin[r1.workflow_version_id]
             /\ r1.input_json = r2.input_json
             /\ r1.status = "completed"
             /\ r2.status = "completed"
             /\ HasEvent(committed.events[e1], "RUN_RESUMED"))
            => /\ r1.final_context_json # << >>
               /\ r2.final_context_json # << >>
               /\ SameRun(r1.final_context_json[1]) = SameRun(r2.final_context_json[1])

\* C10: the step that executes an if node with result r ends the log with a
\* traversal (or pause) on the first outgoing edge, in array order, whose
\* condition is "true"/"false" as r is, on the first outgoing edge when none
\* matches, and with RUN_COMPLETED "No outgoing edge" when there is no edge.
C10_IfEdgeChoice ==
    [][(/\ stack # << >>
        /\ Top.pc = "execute"
        /\ NodeById(GraphOf(Top.workflow_version), Top.current_node_id).node_type = "if"
        /\ db' # db)
       => LET g == GraphOf(Top.workflow_version)
              node == NodeById(g, Top.current_node_id)
              r == execute_node(node, Top.context, 0).output.result = "True"
              out == outgoing(g, node.id)
              hits == { k \in DOMAIN out : out[k].condition = IF r THEN "true" ELSE "false" }
              chosen == IF hits # {} THEN out[Min(hits)] ELSE out[1]
              rows == NoSnap(db'.events[Top.execution_id])
              last == rows[Len(rows)]
          IN  IF out = << >>
              THEN /\ last.event_type = "RUN_COMPLETED"
                   /\ last.payload.info = "No outgoing edge"
              ELSE /\ last.event_type \in {"EDGE_TRAVERSED", "BREAKPOINT_PAUSED"}
                   /\ last.edge_id = chosen.id
                   /\ last.payload.target = chosen.target]_vars

C10_Witness ==
    \E e1, e2 \in DOMAIN committed.events :
        /\ HasEdge(committed.events[e1], "e_b")
        /\ HasEdge(committed.events[e1], "e_c")
        /\ HasEdge(committed.events[e2], "e_a")
        /\ \E i \in DOMAIN committed.events[e2] :
              /\ committed.events[e2][i].event_type = "RUN_COMPLETED"
              /\ committed.events[e2][i].payload.info = "No outgoing edge"

\* C11: every stored snapshot has an event_index below the execution's next
\* event index and congruent to snapshot_interval - 1, and the event right
\* after that index is its SNAPSHOT_WRITTEN, carrying the snapshot's
\* event_index; every SNAPSHOT_WRITTEN event has its snapshot.
SnapshotEvents(rows) == { i \in DOMAIN rows : rows[i].event_type = "SNAPSHOT_WRITTEN" }

C11_SnapshotIndex ==
    /\ \A s \in db.snapshots :
          LET rows == db.events[s.execution_id]
          IN  /\ s.event_index < get_next_event_index(rows)
              /\ s.event_index % snapshot_interval = snapshot_interval - 1
              /\ \E i \in SnapshotEvents(rows) :
                    /\ rows[i].event_index = s.event_index + 1
                    /\ rows[i].payload.event_index = s.event_index
                    /\ i > 1
                    /\ rows[i - 1].event_index = s.event_index
    /\ \A e \in DOMAIN db.events : \A i \in SnapshotEvents(db.events[e]) :
          \E s \in db.snapshots :
              /\ s.execution_id = e
              /\ s.event_index = db.events[e][i].payload.event_index

C11_Witness ==
    \E s \in db.snapshots :
        /\ s.event_index = snapshot_interval - 1
        /\ SnapshotEvents(db.events[s.execution_id]) # {}

\* C12: every committed execution row stores a final context, and that
\* context's system.execution_id is the row's own id.
C12_ContextIsOwn ==
    \A e \in DOMAIN committed.executions :
        /\ committed.executions[e].final_context_json # << >>
        /\ committed.executions[e].final_context_json[1].system.execution_id = e

\* C13: a child row's call depth is its parent row's plus one, a run's
\* call_depth is always the depth of its row (also after a resume), and no
\* run is past its entry check, or has dispatched a node, at a call depth
\* above max_call_depth.
C13_ChildDepth ==
    /\ \A c \in DOMAIN db.executions :
          db.executions[c].parent_execution_id # NoId =>
              db.executions[c].trigger_call_depth
                  = db.executions[db.executions[c].parent_execution_id].trigger_call_depth + 1
    /\ \A k \in DOMAIN stack :
          /\ stack[k].call_depth = db.executions[stack[k].execution_id].trigger_call_depth
          /\ stack[k].pc # "enter" => stack[k].call_depth <= max_call_depth
    /\ \A e \in DOMAIN dispatched \cap DOMAIN db.executions :
          dispatched[e] # << >> => db.executions[e].trigger_call_depth <= max_call_depth

C13_Witness ==
    \E c \in DOMAIN db.executions :
        LET p == db.executions[c].parent_execution_id
        IN  /\ p # NoId
            /\ HasEvent(db.events[p], "RUN_RESUMED")
            /\ db.executions[p].trigger_call_depth = max_call_depth
            /\ db.executions[c].trigger_call_depth = max_call_depth + 1
            /\ exc = "Maximum workflow call depth exceeded"

\* C14: once the request is committed, an execution created above
\* max_call_depth is failed, and each of its ancestors is failed with a
\* NODE_FAILED at its invoke_workflow node.
RECURSIVE Ancestors(_, _)
Ancestors(st, e) ==
    LET p == st.executions[e].parent_execution_id
    IN  IF p = NoId \/ p \notin DOMAIN st.executions THEN {} ELSE {p} \cup Ancestors(st, p)

C14_DepthExceededFails ==
    \A c \in DOMAIN committed.executions :
        committed.executions[c].trigger_call_depth > max_call_depth =>
            /\ committed.executions[c].status = "failed"
            /\ \A a \in Ancestors(committed, c) :
                  /\ committed.executions[a].status = "failed"
                  /\ \E i \in DOMAIN committed.events[a] :
                        /\ committed.events[a][i].event_type = "NODE_FAILED"
                        /\ committed.events[a][i].node_id = "inv"

\* C15: in a parent's log a NODE_SUCCEEDED of an invoke_workflow node closes
\* the run NODE_STARTED, INVOKE_WORKFLOW_STARTED, INVOKE_WORKFLOW_SUCCEEDED
\* of that node; every INVOKE_WORKFLOW_SUCCEEDED comes right after the
\* node's INVOKE_WORKFLOW_STARTED and names a child row of this parent, one
\* level deeper, whose log ends the run with RUN_COMPLETED; when the event
\* is appended the child's status is completed and its run is over; and
\* while a child runs, no caller's log changes.
C15_InvokeSucceeded ==
    /\ [](\A p \in DOMAIN db.events :
            LET rows == db.events[p]
            IN  \A i \in DOMAIN rows :
                  /\ (rows[i].event_type = "NODE_SUCCEEDED"
                      /\ rows[i].payload.info = "invoke_workflow") =>
                        /\ i > 3
                        /\ rows[i - 1].event_type = "INVOKE_WORKFLOW_SUCCEEDED"
                        /\ rows[i - 1].node_id = rows[i].node_id
                  /\ rows[i].event_type = "INVOKE_WORKFLOW_SUCCEEDED" =>
                        /\ i > 2
                        /\ rows[i - 1].event_type = "INVOKE_WORKFLOW_STARTED"
                        /\ rows[i - 1].node_id = rows[i].node_id
                        /\ rows[i - 2].event_type = "NODE_STARTED"
                        /\ rows[i - 2].node_id = rows[i].node_id
                        /\ i < Len(rows) =>
                              /\ rows[i + 1].event_type = "NODE_SUCCEEDED"
                              /\ rows[i + 1].node_id = rows[i].node_id
                        /\ \E c \in DOMAIN db.executions :
                              /\ ToString(c) = rows[i].payload.target
                              /\ db.executions[c].parent_execution_id = p
                              /\ db.executions[c].trigger_call_depth
                                     = db.executions[p].trigger_call_depth + 1
                              /\ db.executions[c].workflow_version_id = rows[i - 1].payload.target
                              /\ ~Running(c)
                              /\ HasEvent(db.events[c], "RUN_COMPLETED")
                              /\ ~HasEvent(db.events[c], "NODE_FAILED"))
    /\ [][/\ \A k \in 1..(Len(stack) - 1) :
                db'.events[stack[k].execution_id] = db.events[stack[k].execution_id]
          /\ \A p \in DOMAIN db.events \cap DOMAIN db'.events :
                (/\ Len(db'.events[p]) = Len(db.events[p]) + 1
                 /\ db'.events[p][Len(db'.events[p])].event_type = "INVOKE_WORKFLOW_SUCCEEDED")
                => \E c \in DOMAIN db'.executions :
                      /\ ToString(c) = db'.events[p][Len(db'.events[p])].payload.target
                      /\ db'.executions[c].status = "completed"]_vars

C15_Witness ==
    \E p, c \in DOMAIN committed.executions :
        /\ committed.executions[c].parent_execution_id = p
        /\ committed.executions[c].status = "completed"
        /\ committed.executions[p].status = "completed"
        /\ HasEvent(committed.events[p], "INVOKE_WORKFLOW_SUCCEEDED")
        /\ HasEvent(committed.events[p], "RUN_RESUMED")

\* ------------------------------------------------------ resilience wrapper
RsCalled == rs # << >> /\ rs'.calls = rs.calls + 1
AllFailed(statuses) == \A k \in DOMAIN statuses : attempt_failed(statuses[k])

\* C16: a call of the wrapper with retryAttempts = r >= 0 and
\* circuitFailureThreshold = t <= r + 1 on a closed breaker, every attempt of
\* which fails, makes exactly r + 1 attempts, leaves failures >= t and
\* open_until_ms in the future, and fails; a call made while open_until_ms
\* is in the future fails with "Circuit open" without any attempt.
C16_AllFailedOpensBreaker ==
    [][RsCalled =>
         /\ ( /\ rs.circuit.open_until_ms <= rs.now_ms
              /\ rs.retry_attempts >= 0
              /\ rs.threshold <= rs.retry_attempts + 1
              /\ AllFailed(rs'.last.statuses) )
            => /\ rs'.last.attempts = rs.retry_attempts + 1
               /\ rs'.circuit.failures >= rs.threshold
               /\ rs'.circuit.open_until_ms > rs.now_ms
               /\ ~rs'.last.ok
         /\ rs.circuit.open_until_ms > rs.now_ms
            => /\ rs'.last.attempts = 0
               /\ rs'.last.error = "Circuit open"
               /\ rs'.circuit = rs.circuit]_vars

\* ---------------------------------------------------------------- paginator
\* The index of the first page of the server whose hasMorePath value is not
\* true; the page after the server's last one has none.
FirstWithoutMore(server) ==
    Min({ k \in 1..(Len(server) + 1) : ~coerce_bool(ServerPage(server, k).has_more) })

RECURSIVE ItemsOfPages(_, _)
ItemsOfPages(server, n) ==
    IF n = 0 THEN << >>
    ELSE ItemsOfPages(server, n - 1) \o page_items(ServerPage(server, n).data)

MaxPagesOf(config) ==
    IF "maxPages" \in DOMAIN config THEN Max({1, config["maxPages"]}) ELSE Max({1, 25})

\* C17: a paginate_request node with strategy page_number requests the
\* pages 1, 2, 3, ... in order, at least one and at most max(1, maxPages) of
\* them, and when it ends with an output, pages_fetched is the smaller of
\* max(1, maxPages) and the index of the first page without more, and items
\* is the concatenation in page order of the items of the fetched pages.
C17_PagesInOrder ==
    pg # << >> =>
        /\ pg.requested = [k \in 1..Len(pg.requested) |-> k]
        /\ Len(pg.requested) <= MaxPagesOf(pg.config)
        /\ pg.state \in {"break", "done", "failed"} => Len(pg.requested) >= 1
        /\ pg.state = "done" =>
              /\ pg.output.pages_fetched >= 1
              /\ pg.output.pages_fetched =
                    Min({MaxPagesOf(pg.config), FirstWithoutMore(pg.server)})
              /\ pg.output.items = ItemsOfPages(pg.server, pg.output.pages_fetched)
              /\ Len(pg.output.pages) = pg.output.pages_fetched

\* The test's server: three pages of two items, maxPages 10.
C17_Witness ==
    /\ pg # << >> /\ pg.state = "done"
    /\ pg.config = ("maxPages" :> 10)
    /\ pg.server = << "more2", "more2", "last2" >>
    /\ pg.output.pages_fetched = 3
    /\ pg.output.items = << 11, 12, 21, 22, 31, 32 >>

\* ------------------------------------------------------------ debug commands
LogOf(store, e) == IF e \in DOMAIN store.events THEN store.events[e] ELSE << >>

\* C18: an abort request changes a paused execution only: on a paused
\* execution it appends RUN_ABORTED and sets the status to aborted; on any
\* other it leaves the status and the log as they are.
C18_AbortOnlyPaused ==
    [][\A run_id \in DOMAIN db.executions :
          DebugCommand(run_id, "abort") =>
             IF db.executions[run_id].status = "paused"
             THEN /\ db'.executions[run_id].status = "aborted"
                  /\ Len(LogOf(db', run_id)) = Len(LogOf(db, run_id)) + 1
                  /\ LogOf(db', run_id)[Len(LogOf(db', run_id))].event_type = "RUN_ABORTED"
             ELSE /\ db'.executions[run_id].status = db.executions[run_id].status
                  /\ LogOf(db', run_id) = LogOf(db, run_id)]_vars

\* C19: a resume or step request for an execution that is not paused is
\* answered 409 and changes nothing: no row, no event (no RUN_RESUMED), no
\* snapshot, no saved output, and no node is dispatched.
C19_NotPausedRefused ==
    [][\A run_id \in DOMAIN db.executions : \A action \in {"resume", "step"} :
          (DebugCommand(run_id, action) /\ db.executions[run_id].status # "paused") =>
             /\ response'.code = 409
             /\ UNCHANGED << db, committed, stack, req, dispatched >>]_vars

C19_Witness ==
    /\ req = Idle
    /\ response.code = 409
    /\ response.execution_id \in DOMAIN db.executions
    /\ db.executions[response.execution_id].status \in {"completed", "failed"}
    /\ ~HasEvent(LogOf(db, response.execution_id), "RUN_RESUMED")

C21_NullKeepsContext ==
    [][/\ \A run_id \in DOMAIN db.executions :
             DebugCommand(run_id, "abort") =>
                db'.executions[run_id].final_context_json
                    = db.executions[run_id].final_context_json
       /\ (RequestFinish /\ req.kind = "post" /\ exc # NoExc) =>
             db'.executions[req.execution_id].final_context_json
                 = db.executions[req.execution_id].final_context_json]_vars

\* ------------------------------------------------------------- termination
\* C22: every run of the run loop terminates: run_execution eventually
\* returns or raises, for every graph and input.
C22_RunTerminates == <>(lp # << >> /\ lp.outcome \in {"return", "raise"})

\* ------------------------------------------------------------ mock API
\* The attempt numbers observed so far for a key: those of the answered
\* requests and of the requests that have read the counter.
Observed(key) ==
    [ i \in { j \in DOMAIN fl.answers : fl.answers[j].key = key } |-> fl.answers[i].attempts ]

ObservedBy(key) ==
    { w \in Workers : fl.worker[w].key = key /\ fl.worker[w].pc \in {"write", "answer"} }

\* C23: for each key the requests observe the attempt numbers 1, 2, 3, ...,
\* each number once, also when they are served concurrently; a request is
\* answered 503 when its number is at most its fail_until and 200 with
\* status ok_after_retries otherwise.
C23_FlakyCounts ==
    fl # << >> =>
        /\ \A key \in FlKeys :
              LET seen == { fl.answers[j].attempts : j \in DOMAIN Observed(key) }
                             \cup { fl.worker[w].attempts : w \in ObservedBy(key) }
                  count == Cardinality(DOMAIN Observed(key)) + Cardinality(ObservedBy(key))
              IN  /\ seen = 1..count
                  /\ \A w \in ObservedBy(key) : fl.worker[w].pc = "answer" =>
                         fl.fail_state[key] >= fl.worker[w].attempts
        /\ \A j \in DOMAIN fl.answers :
              LET a == fl.answers[j]
              IN  IF a.attempts <= a.fail_until
                  THEN a.code = 503
                  ELSE a.code = 200 /\ a.status = "ok_after_retries"

\* The test's three requests for one key with fail_until 2.
C23_Witness ==
    /\ fl # << >>
    /\ Len(fl.answers) = 3
    /\ \A j \in 1..3 : fl.answers[j].key = "k1" /\ fl.answers[j].fail_until = 2
    /\ { fl.answers[j].code : j \in {1, 2} } = {503}
    /\ fl.answers[3].code = 200 /\ fl.answers[3].attempts = 3

\* ---------------------------------------------------------- node failure
\* The innermost run's dispatch raises in this step.
DispatchRaises ==
    /\ stack # << >>
    /\ Top.pc \in {"execute", "invoke_wait"}
    /\ stack' = Pop
    /\ exc' # NoExc

LastEvent(rows) == rows[Len(rows)]

\* C24: when the dispatch of a node raises, the run loop records the node as
\* failed with the error in the context, appends NODE_FAILED for the node,
\* stores status failed with current_node_id = the node and that context, and
\* raises the error to its caller; in no log is a NODE_FAILED of a node
\* followed by NODE_SUCCEEDED, EDGE_TRAVERSED or RUN_COMPLETED.
C24_NodeFailure ==
    /\ [](\A e \in DOMAIN db.events : \A i \in DOMAIN db.events[e] :
            (db.events[e][i].event_type = "NODE_FAILED" /\ db.events[e][i].node_id # NULL) =>
               \A k \in (i + 1)..Len(db.events[e]) :
                  db.events[e][k].event_type
                     \notin {"NODE_SUCCEEDED", "EDGE_TRAVERSED", "RUN_COMPLETED"})
    /\ [][DispatchRaises =>
            LET e == Top.execution_id
                n == Top.current_node_id
                row == db'.executions[e]
                rows == NoSnap(db'.events[e])
            IN  /\ LastEvent(rows).event_type = "NODE_FAILED"
                /\ LastEvent(rows).node_id = n
                /\ LastEvent(rows).payload.info = exc'
                /\ rows = Append(NoSnap(db.events[e]), LastEvent(rows))
                /\ row.status = "failed"
                /\ row.current_node_id = n
                /\ row.final_context_json # << >>
                /\ row.final_context_json[1].nodes[n].status = "failed"
                /\ row.final_context_json[1].nodes[n].error = exc'
                /\ row.final_context_json[1].vars = to_json(Top.context).vars]_vars

C24_Witness ==
    /\ exc = "Upstream server error"
    /\ \E e \in DOMAIN db.executions :
          /\ db.executions[e].status = "failed"
          /\ db.executions[e].current_node_id = "start"
          /\ db.executions[e].final_context_json # << >>
          /\ db.executions[e].final_context_json[1].nodes["start"].status = "failed"
          /\ LastEvent(db.events[e]).event_type = "NODE_FAILED"

\* ------------------------------------------------------------ child failure
CountEvents(rows, event_type) ==
    Cardinality({ i \in DOMAIN rows : rows[i].event_type = event_type })

\* C25: when the child of an invoke_workflow node is not completed after its
\* synchronous run (it failed, raised, or paused at a breakpoint), the
\* parent's node fails: NODE_FAILED for the node is appended to the parent's
\* log, no INVOKE_WORKFLOW_SUCCEEDED is, and the parent's status is failed.
C25_ChildNotCompleted ==
    [][(InvokeFinish /\ db.executions[Top.child].status # "completed") =>
          LET e == Top.execution_id
              n == Top.current_node_id
              rows == NoSnap(db'.events[e])
          IN  /\ LastEvent(rows).event_type = "NODE_FAILED"
              /\ LastEvent(rows).node_id = n
              /\ rows = Append(NoSnap(db.events[e]), LastEvent(rows))
              /\ CountEvents(db'.events[e], "INVOKE_WORKFLOW_SUCCEEDED")
                    = CountEvents(db.events[e], "INVOKE_WORKFLOW_SUCCEEDED")
              /\ db'.executions[e].status = "failed"
              /\ db'.executions[e].current_node_id = n
              /\ exc' # NoExc
              /\ stack' = Pop]_vars

\* A parent failed at its invoke node whose child paused at a breakpoint.
C25_Witness ==
    \E p \in DOMAIN db.executions, c \in DOMAIN db.executions :
        /\ db.executions[c].parent_execution_id = p
        /\ db.executions[c].status = "paused"
        /\ db.executions[p].status = "failed"
        /\ db.executions[p].current_node_id = "inv"
        /\ LastEvent(NoSnap(db.events[p])).event_type = "NODE_FAILED"
        /\ LastEvent(NoSnap(db.events[p])).node_id = "inv"
        /\ ~HasEvent(db.events[p], "INVOKE_WORKFLOW_SUCCEEDED")

\* -------------------------------------------------------------- start node
\* The node id a call of run_execution starts at: the stored cursor of a
\* resume, the graph's entry_node_id otherwise.
StartOf(f) ==
    IF f.start_node_id \notin {NULL, ""} THEN f.start_node_id
    ELSE GraphOf(f.workflow_version).entry_node_id

\* C26: when the start node id of a call of run_execution (within the call
\* depth limit) is missing or not a node of the graph, the call appends one
\* NODE_FAILED with the reason and nothing else, sets the status to failed
\* and returns without raising and without dispatching a node.
C26_InvalidStart ==
    [][( /\ RunEnter
         /\ Top.call_depth <= max_call_depth
         /\ \/ StartOf(Top) \in {NULL, ""}
            \/ StartOf(Top) \notin NodeIds(GraphOf(Top.workflow_version)) ) =>
          LET e == Top.execution_id
              rows == db'.events[e]
          IN  /\ Len(rows) = Len(db.events[e]) + 1
              /\ SubSeq(rows, 1, Len(db.events[e])) = db.events[e]
              /\ LastEvent(rows).event_type = "NODE_FAILED"
              /\ LastEvent(rows).payload.info = "Missing or invalid entry_node_id"
              /\ db'.executions[e].status = "failed"
              /\ stack' = Pop
              /\ exc' = NoExc
              /\ dispatched' = dispatched]_vars

\* A fresh run of a graph without entry node, served and committed.
C26_Witness ==
    \E e \in DOMAIN committed.executions :
        /\ committed.executions[e].workflow_version_id = "noentry"
        /\ committed.executions[e].status = "failed"
        /\ Len(committed.events[e]) = 1
        /\ committed.events[e][1].event_type = "NODE_FAILED"
        /\ committed.events[e][1].payload.info = "Missing or invalid entry_node_id"
        /\ dispatched[e] = << >>

\* C27: at the top of every iteration of the run loop current_node_id is
\* the id of a node of the graph, in every run that started at a node.
C27_CursorIsNode ==
    \A i \in DOMAIN stack :
        stack[i].pc = "loop" =>
            stack[i].current_node_id \in NodeIds(GraphOf(stack[i].workflow_version))

\* -------------------------------------------------------- concurrent resume
RmLog == rm.committed.events[1]

\* Position of the BREAKPOINT_PAUSED event the two requests were sent for.
PausedIndex == Min({ i \in DOMAIN RmLog : RmLog[i].event_type = "BREAKPOINT_PAUSED" })

\* C28: of two resume/step requests processed concurrently for one paused
\* execution at most one runs the loop at a time, only one appends
\* RUN_RESUMED, and every node after the breakpoint is started once.
C28_OneResume ==
    rm # << >> =>
        /\ Cardinality({ w \in Workers : rm.worker[w].pc = "run" }) <= 1
        /\ CountEvents(RmLog, "RUN_RESUMED") <= 1
        /\ \A i \in DOMAIN RmLog, k \in DOMAIN RmLog :
              ( /\ PausedIndex < i /\ i < k
                /\ RmLog[i].event_type = "NODE_STARTED"
                /\ RmLog[k].event_type = "NODE_STARTED" )
              => RmLog[i].node_id # RmLog[k].node_id

\* ---------------------------------------------------------------- snapshots
\* C29: for every snapshot_interval >= 1 and every multiple m > 0 of it up
\* to the number of events in an execution's log, a snapshot with
\* event_index m - 1 exists.
C29_SnapshotEveryN ==
    sn # << >> =>
        \A m \in 1..Len(sn.log) :
            m % sn.interval = 0 => (m - 1) \in sn.snapshots

SnapshotsOf(st, e) == { s \in st.snapshots : s.execution_id = e }

\* The context of the innermost run after a step: the one it goes on with,
\* or the one it stored when it ended.
ContextAfter(e) ==
    IF stack' # << >> /\ stack'[Len(stack')].execution_id = e /\ Len(stack') = Len(stack)
    THEN to_json(stack'[Len(stack')].context)
    ELSE db'.executions[e].final_context_json[1]

C31_BreakerCounts ==
    [][(RsCalled /\ rs.circuit.open_until_ms <= rs.now_ms) =>
         IF rs'.last.ok
         THEN rs'.circuit = NoCircuit
         ELSE /\ rs'.circuit.failures = rs.circuit.failures + rs'.last.attempts
              /\ rs'.circuit.failures >= rs.threshold
                 => rs'.circuit.open_until_ms = rs.now_ms + Max({rs.open_ms, 100})]_vars

\* ------------------------------------------------------------ step = resume
\* The store with the mode of every RUN_RESUMED payload blanked.
WithoutMode(st) ==
    [st EXCEPT !.events = [e \in DOMAIN st.events |->
        [i \in DOMAIN st.events[e] |->
            IF st.events[e][i].event_type = "RUN_RESUMED"
            THEN [st.events[e][i] EXCEPT !.payload.info = "mode"]
            ELSE st.events[e][i]]]]

OtherAction(action) == IF action = "step" THEN "resume" ELSE "step"

\* A request that ran to its end on the store the execution was paused in.
RanAlone(w) ==
    /\ rm.worker[w].pc = "commit"
    /\ \A o \in Workers : rm.worker[o].pc # "done"

\* C32: from the same paused execution, step and resume leave the same
\* status, the same context with the same outputs and the same events, but
\* for the mode in the payload of RUN_RESUMED.
C32_StepIsResume ==
    rm # << >> =>
        \A w \in Workers :
            RanAlone(w) =>
                LET mine == rm.worker[w].st[1]
                    other == continue_execution_from_pause(rm.committed,
                                                           OtherAction(rm.worker[w].action))
                IN  /\ WithoutMode(mine) = WithoutMode(other)
                    /\ mine.executions[1].status = other.executions[1].status
                    /\ mine.executions[1].final_context_json = other.executions[1].final_context_json
                    /\ CountEvents(mine.events[1], "RUN_RESUMED")
                         = CountEvents(rm.committed.events[1], "RUN_RESUMED") + 1
                    /\ \A i \in DOMAIN mine.events[1] :
                          mine.events[1][i] # other.events[1][i]
                            => /\ mine.events[1][i].event_type = "RUN_RESUMED"
                               /\ mine.events[1][i].payload.info = rm.worker[w].action
                               /\ other.events[1][i].payload.info = OtherAction(rm.worker[w].action)

C32_Witness ==
    /\ rm # << >>
    /\ \E w \in Workers :
          /\ RanAlone(w)
          /\ rm.worker[w].action = "step"
          /\ rm.worker[w].st[1].executions[1].status = "completed"
          /\ rm.worker[w].st[1] # continue_execution_from_pause(rm.committed, "resume")

\* ------------------------------------------------------------ last_response
LastResponse(context) ==
    << Get(context.system, "last_response", EmptyMap), Get(context.system, "last_response_node_id", NULL) >>

\* C33: a request that succeeds leaves its response and the node's id in
\* system.last_response and system.last_response_node_id, a paginator that
\* ends leaves its last page there, and a request that fails (every attempt
\* failed, or the circuit open) leaves both as they were before it.
C33_LastResponse ==
    [][(pg # << >> /\ pg' # pg) =>
         IF pg.state = "loop" /\ pg'.iterations = pg.iterations + 1
         THEN IF pg'.state = "failed"
              THEN LastResponse(pg'.context) = LastResponse(pg.context)
              ELSE LastResponse(pg'.context) = << ServerPage(pg.server, pg.page), "pages" >>
         ELSE /\ pg'.state = "done"
              /\ pg.pages # << >>
              /\ LastResponse(pg'.context) = << pg.pages[Len(pg.pages)], "pages" >>]_vars

C33_Witness ==
    /\ pg # << >>
    /\ pg.state = "failed"
    /\ Len(pg.requested) = 2
    /\ LastResponse(pg.context) = << ServerPage(pg.server, 1), "pages" >>

\* ------------------------------------------------------ parameter defaults
\* Places <<node, parameter>> of graph g that declare `name`.
Declarations(g, name) ==
    { d \in (DOMAIN g.nodes) \X (1..4) :
        /\ g.nodes[d[1]].node_type = "parameters"
        /\ d[2] \in DOMAIN g.nodes[d[1]].config.parameters
        /\ strip(g.nodes[d[1]].config.parameters[d[2]].name) = name }

DeclaredNames(g) ==
    UNION { { strip(g.nodes[i].config.parameters[j].name) :
                j \in DOMAIN g.nodes[i].config.parameters } :
            i \in { n \in DOMAIN g.nodes : g.nodes[n].node_type = "parameters" } } \ {""}

\* The default of the first declaration of `name` in the order of the graph.
FirstDefault(g, name) ==
    LET first == CHOOSE d \in Declarations(g, name) :
                    \A o \in Declarations(g, name) :
                        d[1] < o[1] \/ (d[1] = o[1] /\ d[2] <= o[2])
    IN  g.nodes[first[1]].config.parameters[first[2]].defaultValue

Entered == RunEnter /\ Len(stack') = Len(stack) /\ stack'[Len(stack')].pc = "loop"

\* C34: at the start of a fresh run every declared parameter name that is
\* not yet a key of vars gets its default, the keys of the input and the key
\* input keep their values, and a resumed run goes on with the stored
\* variables, no default applied again.
C34_ParameterDefaults ==
    [][Entered =>
         LET f == Top
             after == stack'[Len(stack')].context
             g == GraphOf(f.workflow_version)
             given == DOMAIN f.input_json \cup {"input"}
         IN  IF f.is_resume
             THEN after = f.context
             ELSE /\ DOMAIN after.vars = given \cup DeclaredNames(g)
                  /\ \A k \in DOMAIN f.input_json : after.vars[k] = f.input_json[k]
                  /\ after.vars["input"] = f.input_json
                  /\ \A k \in DeclaredNames(g) \ given : after.vars[k] = FirstDefault(g, k)]_vars

C34_Witness ==
    \E e \in DOMAIN committed.executions :
        /\ committed.executions[e].workflow_version_id = "params"
        /\ committed.executions[e].status = "completed"
        /\ HasEvent(committed.events[e], "RUN_RESUMED")
        /\ committed.executions[e].final_context_json[1].vars["limit"] = "99"
        /\ committed.executions[e].final_context_json[1].vars["approved"] = "no"

\* ------------------------------------------------------------- correlation
\* The execution at the top of e's invocation tree.
RECURSIVE RootOf(_, _)
RootOf(st, e) ==
    LET p == st.executions[e].parent_execution_id
    IN  IF p = NoId \/ p \notin DOMAIN st.executions THEN e ELSE RootOf(st, p)

\* The correlation_id of execution p if it has one, its id otherwise.
LabelOf(st, p) ==
    IF st.executions[p].correlation_id \in {NULL, ""} THEN ToString(p)
    ELSE st.executions[p].correlation_id

Breakers(context) == Get(context.system, "circuit_breakers", EmptyMap)

StoredBreakers(st, e) ==
    IF st.executions[e].final_context_json = << >> THEN EmptyMap
    ELSE Get(st.executions[e].final_context_json[1].system, "circuit_breakers", EmptyMap)

\* C36: a step of one execution's run, a failing request included, changes
\* system.circuit_breakers of no other execution, stored or in memory (its
\* parent's and its child's included), and every fresh run, a child's
\* included, starts without any breaker.
C36_BreakersPerExecution ==
    /\ [][stack # << >> =>
            /\ \A e \in DOMAIN db.executions \ {Top.execution_id} :
                  StoredBreakers(db', e) = StoredBreakers(db, e)
            /\ \A i \in 1..(Len(stack) - 1) :
                  /\ i \in DOMAIN stack'
                  /\ Breakers(stack'[i].context) = Breakers(stack[i].context)]_vars
    /\ [][(Entered /\ ~Top.is_resume) =>
            Breakers(stack'[Len(stack')].context) = EmptyMap]_vars

C36_Witness ==
    /\ Len(stack) = 1
    /\ Top.pc = "invoke_wait"
    /\ "start" \in DOMAIN Breakers(Top.context)
    /\ Breakers(Top.context)["start"].failures = 0
    /\ \E e \in DOMAIN db.executions :
          /\ db.executions[e].parent_execution_id = Top.execution_id
          /\ "start" \in DOMAIN StoredBreakers(db, e)
          /\ StoredBreakers(db, e)["start"].failures = 1
          /\ StoredBreakers(db, e)["start"].open_until_ms > 0

ResumedRunFailed ==
    /\ RequestFinish
    /\ req.kind = "debug"
    /\ exc # NoExc
    /\ db.executions[req.execution_id].status = "failed"
    /\ LastEvent(db.events[req.execution_id]).event_type = "NODE_FAILED"

\* C38: when a node fails in a run re-entered by resume or step, the
\* committed store afterwards shows it: the row has status failed and the
\* log holds the RUN_RESUMED and the NODE_FAILED of that run.
C38_ResumedFailureCommitted ==
    [][ResumedRunFailed =>
         /\ committed'.executions[req.execution_id].status = "failed"
         /\ Len(committed'.events[req.execution_id]) = Len(db.events[req.execution_id])
         /\ LastEvent(committed'.events[req.execution_id]).event_type = "NODE_FAILED"
         /\ HasEvent(committed'.events[req.execution_id], "RUN_RESUMED")]_vars

\* ------------------------------------------------------ status after a run
\* The innermost call of run_execution returns or raises.
RunEnds == stack # << >> /\ Len(stack') < Len(stack)

\* C39: whenever run_execution returns or raises, the stored status of its
\* execution is paused, completed or failed, and no committed row, child
\* rows included, is left running once the request that ran it is over.
C39_NoRunningAfterRun ==
    /\ [][RunEnds =>
            db'.executions[Top.execution_id].status \in {"paused", "completed", "failed"}]_vars
    /\ []((stack = << >> /\ req = Idle) =>
            \A e \in DOMAIN committed.executions :
                committed.executions[e].status # "running")

\* ------------------------------------------------------- resume after pause
\* The RUN_RESUMED at position i of the log follows a BREAKPOINT_PAUSED at
\* position j with no NODE_STARTED, EDGE_TRAVERSED or RUN_COMPLETED between
\* them, and names its target.
ResumesPause(rows, i, j) ==
    /\ j < i
    /\ rows[j].event_type = "BREAKPOINT_PAUSED"
    /\ rows[i].payload.target = rows[j].payload.target
    /\ \A k \in (j + 1)..(i - 1) :
          rows[k].event_type \notin {"NODE_STARTED", "EDGE_TRAVERSED", "RUN_COMPLETED"}

ResumeOrder(rows) ==
    /\ \A i \in DOMAIN rows :
          rows[i].event_type = "RUN_RESUMED" =>
              /\ \E j \in DOMAIN rows : ResumesPause(rows, i, j)
              /\ \A n \in DOMAIN rows :
                    ( /\ n > i
                      /\ rows[n].event_type = "NODE_STARTED"
                      /\ \A k \in (i + 1)..(n - 1) : rows[k].event_type # "NODE_STARTED" )
                    => rows[n].node_id = rows[i].payload.target
    /\ HasEvent(rows, "RUN_STARTED") =>
          /\ rows[1].event_type = "RUN_STARTED"
          /\ rows[1].event_index = 0
          /\ CountEvents(rows, "RUN_STARTED") = 1

\* C40: in every log the requests of the control plane leave, concurrent
\* resume and step requests included, each RUN_RESUMED follows a
\* BREAKPOINT_PAUSED with no NODE_STARTED, EDGE_TRAVERSED or RUN_COMPLETED
\* between them and names its target, the next NODE_STARTED is for that
\* target, and the log has one RUN_STARTED, at index 0.
C40_ResumeFollowsPause ==
    rm # << >> => ResumeOrder(NoSnap(RmLog))

====
